---- MODULE Spec2Model ----
(***************************************************************************)
(* A model of the ecmwf-opendata Rust client: request normalisation, URL   *)
(* enumeration, latest-cycle probing, index range planning and download.   *)
(* Strings are TLA+ strings, taken apart character by character with       *)
(* SubSeq; a datetime is a record [y, m, d, h] (UTC, on the hour).         *)
(***************************************************************************)
EXTENDS Integers, Sequences, FiniteSets, TLC

VARIABLES now, opts, srv, request, pc, outcome

vars == <<now, opts, srv, request, pc, outcome>>

(***************************************************************************)
(* String primitives (std::str).                                           *)
(***************************************************************************)
Char(s, i) == SubSeq(s, i, i)

IsDigit(c) == c \in {"0", "1", "2", "3", "4", "5", "6", "7", "8", "9"}

DigitVal(c) ==
    CASE c = "0" -> 0 [] c = "1" -> 1 [] c = "2" -> 2 [] c = "3" -> 3
      [] c = "4" -> 4 [] c = "5" -> 5 [] c = "6" -> 6 [] c = "7" -> 7
      [] c = "8" -> 8 [] c = "9" -> 9

DigitChar(n) ==
    CASE n = 0 -> "0" [] n = 1 -> "1" [] n = 2 -> "2" [] n = 3 -> "3"
      [] n = 4 -> "4" [] n = 5 -> "5" [] n = 6 -> "6" [] n = 7 -> "7"
      [] n = 8 -> "8" [] n = 9 -> "9"

AllDigits(s) == Len(s) > 0 /\ \A i \in 1..Len(s) : IsDigit(Char(s, i))

RECURSIVE DigitsVal(_)
DigitsVal(s) ==
    IF Len(s) = 0 THEN 0
    ELSE DigitsVal(SubSeq(s, 1, Len(s) - 1)) * 10 + DigitVal(Char(s, Len(s)))

\* str::parse::<i64>: an optional sign, then one or more decimal digits.
ParseI64(s) ==
    LET signed == Len(s) > 0 /\ Char(s, 1) \in {"+", "-"}
        body   == IF signed THEN SubSeq(s, 2, Len(s)) ELSE s
    IN  IF AllDigits(body)
        THEN [ok |-> TRUE,
              v  |-> IF signed /\ Char(s, 1) = "-" THEN 0 - DigitsVal(body)
                     ELSE DigitsVal(body)]
        ELSE [ok |-> FALSE, v |-> 0]

\* str::parse::<u32> and ::<u64>: an optional '+', then one or more decimal digits.
ParseUnsigned(s) ==
    LET signed == Len(s) > 0 /\ Char(s, 1) = "+"
        body   == IF signed THEN SubSeq(s, 2, Len(s)) ELSE s
    IN  IF AllDigits(body) THEN [ok |-> TRUE, v |-> DigitsVal(body)]
        ELSE [ok |-> FALSE, v |-> 0]

RECURSIVE NatToString(_)
NatToString(n) ==
    IF n < 10 THEN DigitChar(n)
    ELSE NatToString(n \div 10) \o DigitChar(n % 10)

\* i64::to_string / format!("{}")
IntToString(n) == IF n < 0 THEN "-" \o NatToString(0 - n) ELSE NatToString(n)

RECURSIVE ZeroPad(_, _)
ZeroPad(s, w) == IF Len(s) >= w THEN s ELSE ZeroPad("0" \o s, w)

\* format!("{:0w}") of a non-negative integer
Pad(n, w) == ZeroPad(NatToString(n), w)

RECURSIVE TrimStart(_)
TrimStart(s) ==
    IF Len(s) > 0 /\ Char(s, 1) = " " THEN TrimStart(SubSeq(s, 2, Len(s))) ELSE s

RECURSIVE TrimEnd(_)
TrimEnd(s) ==
    IF Len(s) > 0 /\ Char(s, Len(s)) = " "
    THEN TrimEnd(SubSeq(s, 1, Len(s) - 1)) ELSE s

\* str::trim
Trim(s) == TrimEnd(TrimStart(s))

\* str::find(pat): the least 1-based index where pat occurs, 0 when absent.
Find(s, pat) ==
    LET hits == {i \in 1..(Len(s) - Len(pat) + 1) :
                    SubSeq(s, i, i + Len(pat) - 1) = pat}
    IN  IF hits = {} THEN 0 ELSE CHOOSE i \in hits : \A j \in hits : i <= j

\* str::rfind(pat): the greatest index where pat occurs, 0 when absent.
RFind(s, pat) ==
    LET hits == {i \in 1..(Len(s) - Len(pat) + 1) :
                    SubSeq(s, i, i + Len(pat) - 1) = pat}
    IN  IF hits = {} THEN 0 ELSE CHOOSE i \in hits : \A j \in hits : i >= j

\* str::starts_with
StartsWith(s, pat) == Len(s) >= Len(pat) /\ SubSeq(s, 1, Len(pat)) = pat

\* str::contains
Contains(s, pat) == Find(s, pat) > 0

\* str::split(c): the segments between occurrences of c, empty ones included.
RECURSIVE Split(_, _)
Split(s, c) ==
    LET i == Find(s, c)
    IN  IF i = 0 THEN <<s>>
        ELSE <<SubSeq(s, 1, i - 1)>> \o Split(SubSeq(s, i + 1, Len(s)), c)

NonEmpty(t) == t # ""

LowerChar(c) ==
    CASE c = "A" -> "a" [] c = "B" -> "b" [] c = "C" -> "c" [] c = "D" -> "d"
      [] c = "E" -> "e" [] c = "F" -> "f" [] c = "G" -> "g" [] c = "H" -> "h"
      [] c = "I" -> "i" [] c = "J" -> "j" [] c = "K" -> "k" [] c = "L" -> "l"
      [] c = "M" -> "m" [] c = "N" -> "n" [] c = "O" -> "o" [] c = "P" -> "p"
      [] c = "Q" -> "q" [] c = "R" -> "r" [] c = "S" -> "s" [] c = "T" -> "t"
      [] c = "U" -> "u" [] c = "V" -> "v" [] c = "W" -> "w" [] c = "X" -> "x"
      [] c = "Y" -> "y" [] c = "Z" -> "z" [] OTHER -> c

\* str::make_ascii_lowercase / to_ascii_lowercase
RECURSIVE Lower(_)
Lower(s) ==
    IF Len(s) = 0 THEN ""
    ELSE LowerChar(Char(s, 1)) \o Lower(SubSeq(s, 2, Len(s)))

\* str::eq_ignore_ascii_case
EqIgnoreCase(a, b) == Lower(a) = Lower(b)

\* str::replace(from, to)
RECURSIVE Replace(_, _, _)
Replace(s, from, to) ==
    LET i == Find(s, from)
    IN  IF i = 0 THEN s
        ELSE SubSeq(s, 1, i - 1) \o to
                \o Replace(SubSeq(s, i + Len(from), Len(s)), from, to)

(***************************************************************************)
(* Results: Ok(v) or Err(kind).                                            *)
(***************************************************************************)
Ok(v) == [ok |-> TRUE, err |-> "", v |-> v]
Err(kind) == [ok |-> FALSE, err |-> kind, v |-> <<>>]

(***************************************************************************)
(* Calendar (chrono::NaiveDate, DateTime<Utc>).                            *)
(***************************************************************************)
IsLeap(y) == (y % 4 = 0 /\ y % 100 # 0) \/ y % 400 = 0

DaysInMonth(y, m) ==
    IF m = 2 THEN (IF IsLeap(y) THEN 29 ELSE 28)
    ELSE IF m \in {4, 6, 9, 11} THEN 30 ELSE 31

\* NaiveDate::from_ymd_opt(y, m, d).is_some()
ValidYmd(y, m, d) == m \in 1..12 /\ d >= 1 /\ d <= DaysInMonth(y, m)

NextDay(dt) ==
    IF dt.d < DaysInMonth(dt.y, dt.m) THEN [dt EXCEPT !.d = dt.d + 1]
    ELSE IF dt.m < 12 THEN [dt EXCEPT !.m = dt.m + 1, !.d = 1]
    ELSE [dt EXCEPT !.y = dt.y + 1, !.m = 1, !.d = 1]

PrevDay(dt) ==
    IF dt.d > 1 THEN [dt EXCEPT !.d = dt.d - 1]
    ELSE IF dt.m > 1
         THEN [dt EXCEPT !.m = dt.m - 1, !.d = DaysInMonth(dt.y, dt.m - 1)]
    ELSE [dt EXCEPT !.y = dt.y - 1, !.m = 12, !.d = 31]

\* date + Duration::days(n), n of either sign
RECURSIVE AddDays(_, _)
AddDays(dt, n) ==
    IF n = 0 THEN dt
    ELSE IF n > 0 THEN AddDays(NextDay(dt), n - 1)
    ELSE AddDays(PrevDay(dt), n + 1)

\* datetime - Duration::hours(n), 0 <= n <= 24
SubHours(dt, n) ==
    IF dt.h >= n THEN [dt EXCEPT !.h = dt.h - n]
    ELSE [PrevDay(dt) EXCEPT !.h = dt.h + 24 - n]

\* the order of DateTime<Utc> / NaiveDate
DtKey(dt) == ((dt.y * 13 + dt.m) * 32 + dt.d) * 24 + dt.h
DtLeq(a, b) == DtKey(a) <= DtKey(b)
DtLess(a, b) == DtKey(a) < DtKey(b)

\* the last date a chrono NaiveDate holds (NaiveDate::MAX), and the count of
\* days from 0001-01-01 to a date: `date + Duration` panics beyond the former
NaiveDateMax == [y |-> 262142, m |-> 12, d |-> 31, h |-> 0]

DaysBeforeYear(y) == 365 * (y - 1) + (y - 1) \div 4 - (y - 1) \div 100 + (y - 1) \div 400

RECURSIVE DaysBeforeMonth(_, _)
DaysBeforeMonth(y, m) ==
    IF m = 1 THEN 0 ELSE DaysInMonth(y, m - 1) + DaysBeforeMonth(y, m - 1)

DayNumber(dt) == DaysBeforeYear(dt.y) + DaysBeforeMonth(dt.y, dt.m) + dt.d

\* date.rs: yyyymmdd, and chrono's format("%Y%m%d")
yyyymmdd(dt) == Pad(dt.y, 4) \o Pad(dt.m, 2) \o Pad(dt.d, 2)

\* chrono's format("%H") and format("%Y%m%d%H%M%S") of an on-the-hour datetime
FormatH(dt) == Pad(dt.h, 2)
FormatStamp(dt) == yyyymmdd(dt) \o Pad(dt.h, 2) \o "0000"

(***************************************************************************)
(* request.rs: RequestValue and the numeric range grammar.                 *)
(***************************************************************************)
RvStr(s) == [tag |-> "Str", val |-> s]
RvInt(i) == [tag |-> "Int", val |-> i]
RvStrList(xs) == [tag |-> "StrList", val |-> xs]
RvIntList(xs) == [tag |-> "IntList", val |-> xs]

\* RequestValue::as_strings
as_strings(rv) ==
    CASE rv.tag = "Str" -> <<rv.val>>
      [] rv.tag = "Int" -> <<IntToString(rv.val)>>
      [] rv.tag = "StrList" -> rv.val
      [] rv.tag = "IntList" -> [i \in 1..Len(rv.val) |-> IntToString(rv.val[i])]

\* str::ends_with
EndsWith(s, pat) ==
    Len(s) >= Len(pat) /\ SubSeq(s, Len(s) - Len(pat) + 1, Len(s)) = pat

\* parse_auto's first step: trim, and take off one pair of surrounding brackets
Unbracketed(s) ==
    IF StartsWith(Trim(s), "[") /\ EndsWith(Trim(s), "]") /\ Len(Trim(s)) >= 2
    THEN Trim(SubSeq(Trim(s), 2, Len(Trim(s)) - 1))
    ELSE Trim(s)

\* t.split(',').map(trim).filter(non-empty)
CommaItems(t) ==
    SelectSeq([i \in 1..Len(Split(t, ",")) |-> Trim(Split(t, ",")[i])], NonEmpty)

\* variant: of a mixed list only the items that are no integers are kept
ClassifyItems_drop_ints(items) ==
    LET NotInt(it) == ~ParseI64(it).ok
    IN  IF items = <<>> THEN RvStr("")
        ELSE IF \A i \in 1..Len(items) : ParseI64(items[i]).ok
        THEN RvIntList([i \in 1..Len(items) |-> ParseI64(items[i]).v])
        ELSE RvStrList(SelectSeq(items, NotInt))

\* the comma branch of parse_auto
ClassifyItems(items) ==
    IF items = <<>> THEN RvStr("")
    ELSE IF \A i \in 1..Len(items) : ParseI64(items[i]).ok
    THEN RvIntList([i \in 1..Len(items) |-> ParseI64(items[i]).v])
    ELSE RvStrList(items)

\* the branches of parse_auto on the unbracketed text
Classify(t) ==
    IF Contains(t, ",") THEN ClassifyItems(CommaItems(t))
    ELSE IF ParseI64(t).ok THEN RvInt(ParseI64(t).v)
    ELSE RvStr(t)

\* RequestValue::parse_auto
parse_auto(s) == Classify(Unbracketed(s))

\* i64::MAX.  The model's integers are 32 bits wide where the program's are
\* 64: 2^31 - 1 stands for 2^63 - 1.
I64_MAX == 2147483647

\* (start..=end).map(|x| x.to_string()).collect()
InclusiveRange(start, end) ==
    [i \in 1..(end - start + 1) |-> IntToString(start + (i - 1))]

\* out.push(x) before the rest of the loop
Pushed(x, rest) == IF rest.ok THEN Ok(<<x>> \o rest.v) ELSE rest

\* the loop `while cur <= end { out.push(cur.to_string()); cur += by }`.
\* `cur += by` past i64::MAX is Err("Overflow"): a panic where overflow checks
\* are on; where they are off the counter wraps to a negative value and the
\* loop goes on from there.  Neither returns the list pushed so far.
RECURSIVE StepRange(_, _, _)
StepRange(cur, end, by) ==
    IF cur > end THEN Ok(<<>>)
    ELSE IF cur > 0 /\ by > I64_MAX - cur THEN Err("Overflow")
    ELSE Pushed(IntToString(cur), StepRange(cur + by, end, by))

expand_numeric_syntax(s) ==
    LET tokens == SelectSeq(Split(s, "/"), NonEmpty)
        start  == ParseI64(tokens[1])
        end    == ParseI64(tokens[3])
        by     == ParseI64(tokens[5])
    IN  IF Len(tokens) = 3 /\ EqIgnoreCase(tokens[2], "to")
        THEN IF ~start.ok \/ ~end.ok THEN Err("InvalidRequest")
             ELSE IF end.v < start.v THEN Err("InvalidRequest")
             ELSE Ok(InclusiveRange(start.v, end.v))
        ELSE IF Len(tokens) = 5 /\ EqIgnoreCase(tokens[2], "to")
                /\ EqIgnoreCase(tokens[4], "by")
        THEN IF ~start.ok \/ ~end.ok \/ ~by.ok THEN Err("InvalidRequest")
             ELSE IF by.v <= 0 THEN Err("InvalidRequest")
             ELSE IF end.v < start.v THEN Err("InvalidRequest")
             ELSE StepRange(start.v, end.v, by.v)
        ELSE Ok(<<s>>)

(***************************************************************************)
(* date.rs                                                                 *)
(***************************************************************************)
CycleHours == {0, 6, 12, 18}

\* variant: any whole number is taken as an hour, the match on the cycle hours
\* left out
canonical_time_to_hour_any(time) ==
    LET n == ParseI64(Trim(time))
    IN  IF ~n.ok THEN Err("InvalidRequest") ELSE Ok(n.v)

\* variant: the text is compared as written, without str::parse
canonical_time_to_hour_literal(time) ==
    IF Trim(time) \in {"0", "6", "12", "18"} THEN Ok(ParseI64(Trim(time)).v)
    ELSE IF Trim(time) = "600" THEN Ok(6)
    ELSE IF Trim(time) = "1200" THEN Ok(12)
    ELSE IF Trim(time) = "1800" THEN Ok(18)
    ELSE Err("InvalidRequest")

canonical_time_to_hour(time) ==
    LET n == ParseI64(Trim(time))
    IN  IF ~n.ok THEN Err("InvalidRequest")
        ELSE IF n.v \in CycleHours THEN Ok(n.v)
        ELSE IF n.v = 600 THEN Ok(6)
        ELSE IF n.v = 1200 THEN Ok(12)
        ELSE IF n.v = 1800 THEN Ok(18)
        ELSE Err("InvalidRequest")

expand_time_value(v) ==
    LET expanded == expand_numeric_syntax(v)
        parsed   == [i \in 1..Len(expanded.v) |-> ParseI64(expanded.v[i])]
        IsCycle(p) == p.v \in CycleHours
        kept     == SelectSeq(parsed, IsCycle)
        out      == [i \in 1..Len(kept) |-> IntToString(kept[i].v)]
    IN  IF ~expanded.ok THEN expanded
        ELSE IF Contains(v, "/to/")
        THEN IF \E i \in 1..Len(parsed) : ~parsed[i].ok THEN Err("InvalidRequest")
             ELSE IF out # <<>> THEN Ok(out)
             ELSE expanded
        ELSE expanded

\* NaiveDate::parse_from_str(s, "%Y-%m-%d"), for the zero-padded form
ParseDashedDate(s) ==
    LET Date(parts) ==
            IF Len(parts) = 3 /\ AllDigits(parts[1]) /\ Len(parts[1]) = 4
               /\ AllDigits(parts[2]) /\ Len(parts[2]) <= 2
               /\ AllDigits(parts[3]) /\ Len(parts[3]) <= 2
               /\ ValidYmd(DigitsVal(parts[1]), DigitsVal(parts[2]), DigitsVal(parts[3]))
            THEN Ok([y |-> DigitsVal(parts[1]), m |-> DigitsVal(parts[2]),
                     d |-> DigitsVal(parts[3]), h |-> 0])
            ELSE Err("InvalidRequest")
    IN  Date(Split(s, "-"))

\* NaiveDateTime::parse_from_str(s, "%Y-%m-%d %H:%M:%S")
ParseDashedDateTime(s) ==
    LET Stamp(halves, date, hms) ==
            IF Len(halves) = 2 /\ date.ok /\ Len(hms) = 3
               /\ (\A i \in 1..3 : AllDigits(hms[i]) /\ Len(hms[i]) <= 2)
               /\ DigitsVal(hms[1]) < 24 /\ DigitsVal(hms[2]) < 60
               /\ DigitsVal(hms[3]) < 60
            THEN Ok([date.v EXCEPT !.h = DigitsVal(hms[1])])
            ELSE Err("InvalidRequest")
    IN  Stamp(Split(s, " "), ParseDashedDate(Split(s, " ")[1]),
              Split(Split(s, " ")[2], ":"))

\* parse_date_like: the date part of the result (callers drop the hour)
parse_date_like(s, nw) ==
    LET Compact(year, month, day) ==
            IF ~year.ok \/ ~month.ok \/ ~day.ok THEN Err("InvalidRequest")
            ELSE IF ~ValidYmd(year.v, month.v, day.v) THEN Err("InvalidRequest")
            ELSE Ok([y |-> year.v, m |-> month.v, d |-> day.v, h |-> 0])
        Parsed(trimmed, n, dashed, stamped) ==
            IF n.ok /\ n.v <= 0 THEN Ok([AddDays(nw, n.v) EXCEPT !.h = 0])
            ELSE IF n.ok /\ Len(trimmed) = 8
            THEN Compact(ParseI64(SubSeq(trimmed, 1, 4)),
                         ParseUnsigned(SubSeq(trimmed, 5, 6)),
                         ParseUnsigned(SubSeq(trimmed, 7, 8)))
            ELSE IF dashed.ok THEN dashed
            ELSE IF stamped.ok THEN Ok([stamped.v EXCEPT !.h = 0])
            ELSE Err("InvalidRequest")
    IN  Parsed(Trim(s), ParseI64(Trim(s)), ParseDashedDate(Trim(s)),
               ParseDashedDateTime(Trim(s)))

\* the loop `while cur <= end { out.push(yyyymmdd(&cur)); cur += days(by) }`;
\* the addition panics when it leaves the dates a NaiveDate holds
RECURSIVE DateRange(_, _, _)
DateRange(cur, end, by) ==
    IF ~DtLeq(cur, end) THEN Ok(<<>>)
    ELSE IF by > DayNumber(NaiveDateMax) - DayNumber(cur) THEN Err("Overflow")
    ELSE Pushed(yyyymmdd(cur), DateRange(AddDays(cur, by), end, by))

expand_date_value(v, nw) ==
    LET Expanded(tokens, start, end, by, single) ==
            IF Contains(v, "/to/") /\ Len(tokens) \in {3, 5}
               /\ EqIgnoreCase(tokens[2], "to")
               /\ (Len(tokens) = 5 => EqIgnoreCase(tokens[4], "by"))
            THEN IF ~start.ok THEN start
                 ELSE IF ~end.ok THEN end
                 ELSE IF Len(tokens) = 3 THEN DateRange(start.v, end.v, 1)
                 ELSE IF ~by.ok THEN Err("InvalidRequest")
                 ELSE IF by.v <= 0 THEN Err("InvalidRequest")
                 ELSE DateRange(start.v, end.v, by.v)
            ELSE IF single.ok THEN Ok(<<yyyymmdd(single.v)>>)
            ELSE single
    IN  Expanded(Split(v, "/"), parse_date_like(Split(v, "/")[1], nw),
                 parse_date_like(Split(v, "/")[3], nw), ParseI64(Split(v, "/")[5]),
                 parse_date_like(v, nw))

full_datetime_from_date_time(date_yyyymmdd, time_hour) ==
    LET year  == ParseI64(SubSeq(date_yyyymmdd, 1, 4))
        month == ParseUnsigned(SubSeq(date_yyyymmdd, 5, 6))
        day   == ParseUnsigned(SubSeq(date_yyyymmdd, 7, 8))
    IN  IF Len(date_yyyymmdd) # 8 THEN Err("InvalidRequest")
        ELSE IF ~year.ok \/ ~month.ok \/ ~day.ok THEN Err("InvalidRequest")
        ELSE IF ~ValidYmd(year.v, month.v, day.v) THEN Err("InvalidRequest")
        ELSE IF time_hour >= 24 THEN Err("InvalidRequest")
        ELSE Ok([y |-> year.v, m |-> month.v, d |-> day.v, h |-> time_hour])

\* end_step: Some(e) as Ok(e), None as an Err
end_step(step) ==
    LET i   == Find(step, "-")
        rhs == IF i > 0 THEN SubSeq(step, i + 1, Len(step)) ELSE step
        e   == ParseI64(Trim(rhs))
    IN  IF e.ok THEN Ok(e.v) ELSE Err("None")

(***************************************************************************)
(* url_builder.rs                                                          *)
(***************************************************************************)
HOURLY_PATTERN ==
    "{url}/{yyyymmdd}/{H}z/{model}/{resol}/{stream}/{yyyymmddHHMMSS}-{step}h-{stream}-{type}.{ext}"
MONTHLY_PATTERN ==
    "{url}/{yyyymmdd}/{H}z/{model}/{resol}/{stream}/{yyyymmddHHMMSS}-{fcmonth}m-{stream}-{type}.{ext}"

extension_for_type(typ) == IF typ = "tf" THEN "bufr" ELSE "grib2"

\* variant: the aliases are applied whatever the model
user_to_url_value_any_model(model, key, value, all_url_type_values) ==
    IF key = "type"
    THEN IF value \in {"cf", "pf"} THEN "ef"
         ELSE IF value \in {"em", "es"} THEN "ep"
         ELSE IF value = "fcmean" THEN "fc"
         ELSE value
    ELSE IF key = "stream"
    THEN IF value = "mmsa" THEN "mmsf" ELSE value
    ELSE value

user_to_url_value(model, key, value, all_url_type_values) ==
    IF key = "type"
    THEN IF model = "aifs-ens" /\ value \in {"pf", "cf"} THEN value
         ELSE IF value \in {"cf", "pf"} THEN "ef"
         ELSE IF value \in {"em", "es"} THEN "ep"
         ELSE IF value = "fcmean" THEN "fc"
         ELSE value
    ELSE IF key = "stream"
    THEN IF value = "mmsa" THEN "mmsf" ELSE value
    ELSE IF key = "step" /\ Len(all_url_type_values) = 1
            /\ all_url_type_values[1] = "ep" /\ end_step(value).ok
    THEN IF end_step(value).v <= 240 THEN "240" ELSE "360"
    ELSE value

\* variant: the patch by hour alone, the patch by type left out
patch_stream_hour_only(infer_stream_keyword, model, stream, hour_2d, typ) ==
    IF ~infer_stream_keyword \/ model = "aifs-single" THEN stream
    ELSE IF stream = "oper" /\ hour_2d \in {"06", "18"} THEN "scda"
    ELSE IF stream = "wave" /\ hour_2d \in {"06", "18"} THEN "scwv"
    ELSE stream

patch_stream(infer_stream_keyword, model, stream, hour_2d, typ) ==
    LET byHour ==
            IF stream = "oper" /\ hour_2d \in {"06", "18"} THEN "scda"
            ELSE IF stream = "wave" /\ hour_2d \in {"06", "18"} THEN "scwv"
            ELSE stream
    IN  IF ~infer_stream_keyword \/ model = "aifs-single" THEN stream
        ELSE IF byHour \in {"oper", "scda"} /\ typ \in {"ef", "ep"} THEN "enfo"
        ELSE IF byHour \in {"wave", "scwv"} /\ typ \in {"ef", "ep"} THEN "waef"
        ELSE byHour

\* str::replace of each <<from, to>> in turn; a text without the placeholder
\* is left as it is
RECURSIVE ReplaceEach(_, _)
ReplaceEach(s, subs) ==
    IF subs = <<>> THEN s
    ELSE IF Find(s, subs[1][1]) = 0 THEN ReplaceEach(s, Tail(subs))
    ELSE ReplaceEach(Replace(s, subs[1][1], subs[1][2]), Tail(subs))

\* step and fcmonth are Ok(text) for Some(text) and an Err for None
format_url(pattern, base_url, date, model, resol, stream, typ, step, fcmonth) ==
    ReplaceEach(pattern,
        <<<<"{url}", base_url>>, <<"{yyyymmdd}", yyyymmdd(date)>>,
          <<"{H}", FormatH(date)>>, <<"{model}", model>>, <<"{resol}", resol>>,
          <<"{stream}", stream>>, <<"{type}", typ>>,
          <<"{yyyymmddHHMMSS}", FormatStamp(date)>>,
          <<"{ext}", extension_for_type(typ)>>>>
        \o (IF step.ok THEN <<<<"{step}", step.v>>>> ELSE <<>>)
        \o (IF fcmonth.ok THEN <<<<"{fcmonth}", fcmonth.v>>>> ELSE <<>>))

(***************************************************************************)
(* sources.rs                                                              *)
(***************************************************************************)
is_http_url(s) == StartsWith(s, "http://") \/ StartsWith(s, "https://")

source_to_base_url(source) ==
    CASE source = "ecmwf" -> Ok("https://data.ecmwf.int/forecasts")
      [] source = "azure" -> Ok("https://ai4edataeuwest.blob.core.windows.net/ecmwf")
      [] source = "aws" -> Ok("https://ecmwf-forecasts.s3.eu-central-1.amazonaws.com")
      [] source = "google" -> Ok("https://storage.googleapis.com/ecmwf-open-data")
      [] source = "ecmwf-esuites" -> Ok("https://xdiss.ecmwf.int/ecpds/home/opendata")
      [] OTHER -> Err("InvalidRequest")

(***************************************************************************)
(* client.rs: free functions.                                              *)
(***************************************************************************)
URL_COMPONENTS ==
    {"date", "time", "model", "resol", "stream", "type", "step", "fcmonth"}

INDEX_COMPONENTS == <<"param", "type", "step", "fcmonth", "number", "levelist">>

InSeq(x, xs) == \E i \in 1..Len(xs) : xs[i] = x

RECURSIVE unique_preserve(_)
unique_preserve(xs) ==
    IF xs = <<>> THEN <<>>
    ELSE LET init == unique_preserve(SubSeq(xs, 1, Len(xs) - 1))
             x    == xs[Len(xs)]
         IN  IF InSeq(x, init) THEN init ELSE Append(init, x)

\* slice::sort_by_key(|(o, _)| *o): a stable sort on the first component
RECURSIVE InsertByOffset(_, _)
InsertByOffset(sorted, x) ==
    IF sorted = <<>> THEN <<x>>
    ELSE IF sorted[Len(sorted)][1] <= x[1] THEN Append(sorted, x)
    ELSE Append(InsertByOffset(SubSeq(sorted, 1, Len(sorted) - 1), x),
                sorted[Len(sorted)])

RECURSIVE SortByOffset(_)
SortByOffset(xs) ==
    IF xs = <<>> THEN <<>>
    ELSE InsertByOffset(SortByOffset(SubSeq(xs, 1, Len(xs) - 1)), xs[Len(xs)])

\* (offset, length) to the inclusive end offset + length - 1
InclusiveEnd(o, l) == o + l - 1

\* o + l - 1 is computed on u64 operands: it panics for o + l = 0
Underflows(matches) ==
    \E i \in DOMAIN matches : matches[i][1] + matches[i][2] = 0

\* the coalescing loop of merge_ranges over the sorted matches
RECURSIVE Coalesce(_)
Coalesce(ms) ==
    IF ms = <<>> THEN <<>>
    ELSE LET out   == Coalesce(SubSeq(ms, 1, Len(ms) - 1))
             start == ms[Len(ms)][1]
             end   == InclusiveEnd(ms[Len(ms)][1], ms[Len(ms)][2])
             last  == out[Len(out)]
         IN  IF out # <<>> /\ start <= last[2] + 1
             THEN [out EXCEPT ![Len(out)] =
                        <<last[1], IF last[2] >= end THEN last[2] ELSE end>>]
             ELSE Append(out, <<start, end>>)

\* variant: the coalescing test is start <= last.1, so that a range starting
\* right after the last one is pushed instead of merged
RECURSIVE CoalesceOverlapping(_)
CoalesceOverlapping(ms) ==
    IF ms = <<>> THEN <<>>
    ELSE LET out   == CoalesceOverlapping(SubSeq(ms, 1, Len(ms) - 1))
             start == ms[Len(ms)][1]
             end   == InclusiveEnd(ms[Len(ms)][1], ms[Len(ms)][2])
             last  == out[Len(out)]
         IN  IF out # <<>> /\ start <= last[2]
             THEN [out EXCEPT ![Len(out)] =
                        <<last[1], IF last[2] >= end THEN last[2] ELSE end>>]
             ELSE Append(out, <<start, end>>)

merge_ranges_overlapping(matches) ==
    IF matches = <<>> THEN <<>>
    ELSE IF Len(matches) = 1
    THEN <<<<matches[1][1], InclusiveEnd(matches[1][1], matches[1][2])>>>>
    ELSE CoalesceOverlapping(SortByOffset(matches))

\* variant: a coalesced range takes the end of the entry merged into it, not
\* the larger of the two ends
RECURSIVE CoalesceLastEnd(_)
CoalesceLastEnd(ms) ==
    IF ms = <<>> THEN <<>>
    ELSE LET out   == CoalesceLastEnd(SubSeq(ms, 1, Len(ms) - 1))
             start == ms[Len(ms)][1]
             end   == InclusiveEnd(ms[Len(ms)][1], ms[Len(ms)][2])
             last  == out[Len(out)]
         IN  IF out # <<>> /\ start <= last[2] + 1
             THEN [out EXCEPT ![Len(out)] = <<last[1], end>>]
             ELSE Append(out, <<start, end>>)

merge_ranges_last_end(matches) ==
    IF matches = <<>> THEN <<>>
    ELSE IF Len(matches) = 1
    THEN <<<<matches[1][1], InclusiveEnd(matches[1][1], matches[1][2])>>>>
    ELSE CoalesceLastEnd(SortByOffset(matches))

merge_ranges(matches) ==
    IF matches = <<>> THEN <<>>
    ELSE IF Len(matches) = 1
    THEN <<<<matches[1][1], InclusiveEnd(matches[1][1], matches[1][2])>>>>
    ELSE Coalesce(SortByOffset(matches))

\* the "s1-e1;s2-e2" text the planner appends after '|'
RECURSIVE EncodeRanges(_)
EncodeRanges(merged) ==
    IF merged = <<>> THEN ""
    ELSE LET init == EncodeRanges(SubSeq(merged, 1, Len(merged) - 1))
             r    == merged[Len(merged)]
         IN  (IF Len(merged) > 1 THEN init \o ";" ELSE init)
                \o IntToString(r[1]) \o "-" \o IntToString(r[2])

\* split_url_ranges: Ok([url, ranges]) or InvalidRequest
split_url_ranges(s) ==
    LET bar   == Find(s, "|")
        url   == SubSeq(s, 1, bar - 1)
        enc   == SubSeq(s, bar + 1, Len(s))
        parts == SelectSeq(Split(enc, ";"), NonEmpty)
        Dash(part) == Find(part, "-")
        A(part) == ParseUnsigned(SubSeq(part, 1, Dash(part) - 1))
        B(part) == ParseUnsigned(SubSeq(part, Dash(part) + 1, Len(part)))
        Bad(part) == Dash(part) = 0 \/ ~A(part).ok \/ ~B(part).ok
                        \/ B(part).v < A(part).v
    IN  IF bar = 0 THEN Err("InvalidRequest")
        ELSE IF \E i \in 1..Len(parts) : Bad(parts[i]) THEN Err("InvalidRequest")
        ELSE Ok([url |-> url,
                 ranges |-> [i \in 1..Len(parts) |->
                                <<A(parts[i]).v, B(parts[i]).v>>]])

(***************************************************************************)
(* Options, and the remote store the client talks to.                      *)
(*                                                                         *)
(* opts: the ClientOptions fields the pipeline reads, with sas_token the   *)
(* token Client::new stored ("" for none).                                 *)
(* srv.published: the cycles (as YYYYMMDDHHMMSS stamps) whose blobs exist. *)
(* srv.head: how HEAD answers: 0 by existence (200 or 404), -1 a           *)
(*   transport error, any other number that status for every URL.          *)
(* srv.get: how GET answers: 0 by existence (206 for a ranged GET, 200 for *)
(*   a full one, 404 when absent), -1 a transport error, any other number  *)
(*   that status for every URL.                                            *)
(* srv.index: the lines of the .index sidecars, each [blob, obj]: the JSON  *)
(*   object obj is a line of the sidecar of every blob whose URL contains  *)
(*   the text blob.  A line that names no "type" or "step" carries the     *)
(*   type and step of its blob's file name, as the store's sidecars do.    *)
(* srv.blob_len: the length of every blob.                                 *)
(***************************************************************************)
None == Err("None")
Some(v) == Ok(v)

TransportError == -1

HttpReq(method, url, range) == [method |-> method, url |-> url, range |-> range]

\* the stamp of a blob or sidecar URL: the 14 characters after the last '/'
UrlStamp(url) ==
    LET i == RFind(url, "/")
    IN  SubSeq(url, i + 1, IF i + 14 <= Len(url) THEN i + 14 ELSE Len(url))

Published(url) == UrlStamp(url) \in srv.published

HeadStatus(url) ==
    IF srv.head = 0 THEN (IF Published(url) THEN 200 ELSE 404) ELSE srv.head

GetStatus(url, ranged) ==
    IF srv.get = 0
    THEN (IF ~Published(url) THEN 404 ELSE IF ranged THEN 206 ELSE 200)
    ELSE srv.get

\* reqwest's error_for_status: 4xx and 5xx become errors
IsErrorStatus(st) == st >= 400 /\ st <= 599

\* a JSON string or number inside an index line
JStr(s) == [t |-> "str", v |-> s]
JNum(n) == [t |-> "num", v |-> n]

\* serde_json Value::get(k).and_then(as_str) / as_u64 on a parsed line
JsonStr(obj, k) ==
    IF k \in DOMAIN obj /\ obj[k].t = "str" THEN Some(obj[k].v) ELSE None
JsonU64(obj, k) ==
    IF k \in DOMAIN obj /\ obj[k].t = "num" /\ obj[k].v >= 0
    THEN Some(obj[k].v) ELSE None

(***************************************************************************)
(* client.rs: Client.  Every operation returns a record                    *)
(* [ok, err, v, log], log being the HTTP requests it sent, in order.       *)
(***************************************************************************)
Done(r, log) ==
    [ok |-> r.ok, err |-> r.err, v |-> r.v, log |-> log, probed |-> <<>>, entries |-> 0]

\* Client::new: base_url
BaseUrl ==
    IF is_http_url(opts.source) THEN opts.source
    ELSE source_to_base_url(opts.source).v

apply_sas_to_url(url) ==
    IF opts.sas_token = "" THEN url
    ELSE IF Contains(url, "sig=") THEN url
    ELSE IF Contains(url, "?") THEN url \o "&" \o opts.sas_token
    ELSE url \o "?" \o opts.sas_token

fix_0p4_beta(url) ==
    IF opts.resol = "0p4-beta" THEN Replace(url, "/ifs/", "/") ELSE url

HeadFallback == {403, 404, 405, 409, 429, 500, 501, 502, 503}

\* variant: no fallback, the answer to HEAD decides
probe_exists_head_only(url) ==
    Done(Ok(HeadStatus(url) = 200), <<HttpReq("HEAD", url, "")>>)

probe_exists(url) ==
    LET head == HeadStatus(url)
        get  == GetStatus(url, TRUE)
        hlog == <<HttpReq("HEAD", url, "")>>
        glog == Append(hlog, HttpReq("GET", url, "bytes=0-0"))
    IN  IF head = 200 THEN Done(Ok(TRUE), hlog)
        ELSE IF head # TransportError /\ head \notin HeadFallback
        THEN Done(Ok(FALSE), hlog)
        ELSE IF get = TransportError THEN Done(Err("Http"), glog)
        ELSE Done(Ok(get \in {200, 206}), glog)

\* the type and step in a file name "<stamp>-<step>h-<stream>-<type>.<ext>"
FileFields(url) ==
    LET name == SubSeq(url, RFind(url, "/") + 1, RFind(url, ".") - 1)
        typ  == SubSeq(name, RFind(name, "-") + 1, Len(name))
        rest == SubSeq(name, 1, RFind(name, "-") - 1)
        lead == SubSeq(rest, Find(rest, "-") + 1, RFind(rest, "-") - 2)
    IN  ("type" :> JStr(typ)) @@ ("step" :> JStr(lead))

\* the parsed lines of the sidecar at index_url, in file order
IndexBody(index_url) ==
    LET Mine(line) == Contains(index_url, line.blob)
        lines == SelectSeq(srv.index, Mine)
    IN  [i \in 1..Len(lines) |-> lines[i].obj @@ FileFields(index_url)]

\* Vec<(usize, usize)> comparison: lexicographic, a and b of equal length
RECURSIVE KeyLeq(_, _)
KeyLeq(a, b) ==
    IF a = <<>> THEN TRUE
    ELSE IF a[1] # b[1]
    THEN a[1][1] < b[1][1] \/ (a[1][1] = b[1][1] /\ a[1][2] < b[1][2])
    ELSE KeyLeq(Tail(a), Tail(b))

\* parts.sort_by(|a, b| a.0.cmp(&b.0)): a stable sort on the sort key
RECURSIVE InsertByKey(_, _)
InsertByKey(sorted, x) ==
    IF sorted = <<>> THEN <<x>>
    ELSE IF KeyLeq(sorted[Len(sorted)].key, x.key) THEN Append(sorted, x)
    ELSE Append(InsertByKey(SubSeq(sorted, 1, Len(sorted) - 1), x),
                sorted[Len(sorted)])

RECURSIVE SortByKey(_)
SortByKey(xs) ==
    IF xs = <<>> THEN <<>>
    ELSE InsertByKey(SortByKey(SubSeq(xs, 1, Len(xs) - 1)), xs[Len(xs)])

\* iter().position(|a| a == val), 0-based; -1 for None
Position(allowed, val) ==
    IF InSeq(val, allowed)
    THEN (CHOOSE j \in 1..Len(allowed) :
            allowed[j] = val /\ \A i \in 1..(j - 1) : allowed[i] # val) - 1
    ELSE -1

\* one index line against the request: whether it matches, and its sort key
LineMatch(obj, ordered_keys, for_index) ==
    LET Pos(i) == IF JsonStr(obj, ordered_keys[i]).ok
                  THEN Position(for_index[ordered_keys[i]],
                                JsonStr(obj, ordered_keys[i]).v)
                  ELSE -1
    IN  [ok  |-> \A i \in 1..Len(ordered_keys) : Pos(i) >= 0,
         key |-> [i \in 1..Len(ordered_keys) |-> <<i - 1, Pos(i)>>],
         range |-> <<JsonU64(obj, "_offset").v, JsonU64(obj, "_length").v>>]

\* variant: a URL none of whose lines matches is kept, bare, instead of dropped
PlanUrl_keep_unmatched(url, body, ordered_keys, for_index) ==
    LET Broken(obj) == ~JsonU64(obj, "_offset").ok \/ ~JsonU64(obj, "_length").ok
        lines   == [i \in 1..Len(body) |-> LineMatch(body[i], ordered_keys, for_index)]
        Hit(m)  == m.ok
        parts   == SelectSeq(lines, Hit)
        ordered == IF opts.preserve_request_order
                   THEN [i \in 1..Len(parts) |-> SortByKey(parts)[i].range]
                   ELSE SortByOffset([i \in 1..Len(parts) |-> parts[i].range])
        merged  == merge_ranges(ordered)
    IN  IF ordered_keys = <<>> THEN Ok(<<url>>)
        ELSE IF \E i \in 1..Len(body) : Broken(body[i]) THEN Err("InvalidRequest")
        ELSE IF parts = <<>> THEN Ok(<<url>>)
        ELSE IF Underflows(ordered) THEN Err("Overflow")
        ELSE Ok(<<url \o "|" \o EncodeRanges(merged)>>)

\* the body of the per-URL loop of expand_urls_to_ranges, after the sidecar
\* was fetched: Ok(<<entry>>), Ok(<<>>) for a dropped URL, or an error
PlanUrl(url, body, ordered_keys, for_index) ==
    LET Broken(obj) == ~JsonU64(obj, "_offset").ok \/ ~JsonU64(obj, "_length").ok
        lines   == [i \in 1..Len(body) |-> LineMatch(body[i], ordered_keys, for_index)]
        Hit(m)  == m.ok
        parts   == SelectSeq(lines, Hit)
        ordered == IF opts.preserve_request_order
                   THEN [i \in 1..Len(parts) |-> SortByKey(parts)[i].range]
                   ELSE SortByOffset([i \in 1..Len(parts) |-> parts[i].range])
        merged  == merge_ranges(ordered)
    IN  IF ordered_keys = <<>> THEN Ok(<<url>>)
        ELSE IF \E i \in 1..Len(body) : Broken(body[i]) THEN Err("InvalidRequest")
        ELSE IF parts = <<>> THEN Ok(<<>>)
        ELSE IF Underflows(ordered) THEN Err("Overflow")
        ELSE Ok(<<url \o "|" \o EncodeRanges(merged)>>)

RECURSIVE PlanUrls(_, _, _)
PlanUrls(urls, ordered_keys, for_index) ==
    IF urls = <<>> THEN Done(Ok(<<>>), <<>>)
    ELSE LET init  == PlanUrls(SubSeq(urls, 1, Len(urls) - 1), ordered_keys, for_index)
             url   == urls[Len(urls)]
             dot   == RFind(url, ".")
             base  == IF dot > 0 THEN SubSeq(url, 1, dot - 1) ELSE url
             index_url == apply_sas_to_url(base \o ".index")
             status == GetStatus(index_url, FALSE)
             log   == Append(init.log, HttpReq("GET", index_url, ""))
             one   == PlanUrl(url, IndexBody(index_url), ordered_keys, for_index)
         IN  IF ~init.ok THEN init
             ELSE IF status = TransportError \/ IsErrorStatus(status)
             THEN Done(Err("Http"), log)
             ELSE IF ~one.ok THEN Done(one, log)
             ELSE Done(Ok(init.v \o one.v), log)

\* variant: a plan left without any entry is returned instead of failing
expand_urls_to_ranges_empty_ok(urls, for_index) ==
    LET Present(k) == k \in DOMAIN for_index
    IN  PlanUrls(urls, SelectSeq(INDEX_COMPONENTS, Present), for_index)

expand_urls_to_ranges(urls, for_index) ==
    LET Present(k) == k \in DOMAIN for_index
        ordered_keys == SelectSeq(INDEX_COMPONENTS, Present)
        out == PlanUrls(urls, ordered_keys, for_index)
    IN  IF ~out.ok THEN out
        ELSE IF out.v = <<>> THEN Done(Err("NoMatchingIndex"), out.log)
        ELSE out

(***************************************************************************)
(* Client::get_urls, from "Normalize / expand into for_urls and for_index" *)
(* on.  A BTreeMap is a function whose DOMAIN is its key set; its          *)
(* iteration order is KeyOrder.                                            *)
(***************************************************************************)
KeyOrder ==
    <<"date", "fcmonth", "levelist", "levtype", "model", "number", "param",
      "resol", "step", "stream", "target", "time", "type">>

EmptyMap == [k \in {} |-> <<>>]
Insert(map, k, v) == (k :> v) @@ map
OrInsert(map, k, v) == map @@ (k :> v)
GetOr(map, k, default) == IF k \in DOMAIN map THEN map[k] ELSE default

RECURSIVE Flatten(_)
Flatten(xss) ==
    IF xss = <<>> THEN <<>>
    ELSE Flatten(SubSeq(xss, 1, Len(xss) - 1)) \o xss[Len(xss)]

\* out.extend(f(x)?) over a list: the concatenation, or the first error
Collect(rs) ==
    IF \E i \in 1..Len(rs) : ~rs[i].ok
    THEN rs[CHOOSE i \in 1..Len(rs) : ~rs[i].ok /\ \A j \in 1..(i - 1) : rs[j].ok]
    ELSE Ok(Flatten([i \in 1..Len(rs) |-> rs[i].v]))

\* "allow slash-separated lists"
SlashSplit(values) ==
    IF Len(values) = 1 /\ Contains(values[1], "/")
    THEN SelectSeq(Split(values[1], "/"), NonEmpty)
    ELSE values

\* the match on k.as_str() that expands one keyword's values
ExpandKey(k, values) ==
    IF k = "date"
    THEN Collect([i \in 1..Len(values) |-> expand_date_value(values[i], now)])
    ELSE IF k = "time"
    THEN Collect([i \in 1..Len(values) |-> expand_time_value(values[i])])
    ELSE IF k \in {"step", "fcmonth", "number", "levelist"}
    THEN Collect([i \in 1..Len(values) |-> expand_numeric_syntax(values[i])])
    ELSE Ok(values)

\* user_to_index: type=ef expands to cf/pf for index selection
IndexValues(k, expanded) ==
    IF k = "type"
    THEN Flatten([i \in 1..Len(expanded) |->
                    IF expanded[i] = "ef" THEN <<"cf", "pf">> ELSE <<expanded[i]>>])
    ELSE expanded

\* the loop "Process each param" over the keys, in map order
RECURSIVE ProcessParams(_, _, _, _)
ProcessParams(keys, params, model, acc) ==
    LET Step(prev, k, expanded) ==
            IF ~prev.ok THEN prev
            ELSE IF ~expanded.ok
            THEN [prev EXCEPT !.ok = FALSE, !.err = expanded.err]
            ELSE [prev EXCEPT
                    !.for_urls =
                       IF k \in URL_COMPONENTS
                       THEN Insert(@, k, GetOr(@, k, <<>>) \o
                                [i \in 1..Len(expanded.v) |->
                                    user_to_url_value(model, k, expanded.v[i],
                                                      GetOr(prev.for_urls, "type", <<>>))])
                       ELSE @,
                    !.for_index =
                       IF InSeq(k, INDEX_COMPONENTS)
                       THEN Insert(@, k, GetOr(@, k, <<>>) \o IndexValues(k, expanded.v))
                       ELSE @]
    IN  IF keys = <<>> THEN acc
        ELSE Step(ProcessParams(SubSeq(keys, 1, Len(keys) - 1), params, model, acc),
                  keys[Len(keys)],
                  ExpandKey(keys[Len(keys)],
                            SlashSplit(as_strings(params[keys[Len(keys)]]))))

\* "Canonicalize time: store hour string (00/06/12/18)"
CanonicalTimes(times) ==
    LET Hours(hours) ==
            IF \E i \in 1..Len(hours) : ~hours[i].ok THEN Err("InvalidRequest")
            ELSE Ok(unique_preserve([i \in 1..Len(hours) |-> Pad(hours[i].v, 2)]))
    IN  Hours([i \in 1..Len(times) |-> canonical_time_to_hour(times[i])])

\* unique_preserve, then make_ascii_lowercase for stream and type
DedupLower(map) ==
    [k \in DOMAIN map |->
        LET vals == unique_preserve(map[k])
        IN  IF k \in {"stream", "type"}
            THEN [i \in 1..Len(vals) |-> Lower(vals[i])]
            ELSE vals]

\* the innermost loops: the URLs of one (datetime, model, resol, stream, type)
UrlsOfProduct(dt, m, r, s, ty, step_vals, fcmonth_vals) ==
    LET patched_stream ==
            patch_stream(opts.infer_stream_keyword, m, s, FormatH(dt), ty)
        is_monthly == s = "mmsa"
        resol == IF opts.beta THEN r \o "/experimental" ELSE r
    IN  IF is_monthly
        THEN [i \in 1..Len(fcmonth_vals) |->
                fix_0p4_beta(format_url(MONTHLY_PATTERN, BaseUrl, dt, m, resol,
                                        patched_stream, ty, None,
                                        Some(fcmonth_vals[i])))]
        ELSE [i \in 1..Len(step_vals) |->
                fix_0p4_beta(format_url(HOURLY_PATTERN, BaseUrl, dt, m, resol,
                                        patched_stream, ty, Some(step_vals[i]),
                                        None))]

\* "Now expand into concrete URLs": Ok([urls, dates]) or the first error
EnumerateUrls(for_urls, model) ==
    LET date_vals == for_urls["date"]
        time_vals == for_urls["time"]
        model_vals == GetOr(for_urls, "model", <<model>>)
        resol_vals == GetOr(for_urls, "resol", <<opts.resol>>)
        stream_vals == GetOr(for_urls, "stream", <<"oper">>)
        type_vals == GetOr(for_urls, "type", <<"fc">>)
        step_vals == GetOr(for_urls, "step", <<"0">>)
        fcmonth_vals == GetOr(for_urls, "fcmonth", <<"1">>)
        Hour(t) == ParseUnsigned(t)
        Dt(d, t) == IF Hour(t).ok THEN full_datetime_from_date_time(d, Hour(t).v)
                    ELSE Err("InvalidRequest")
        OfDt(dt) ==
            Flatten([mi \in 1..Len(model_vals) |->
             Flatten([ri \in 1..Len(resol_vals) |->
              Flatten([si \in 1..Len(stream_vals) |->
               Flatten([ti \in 1..Len(type_vals) |->
                 UrlsOfProduct(dt, model_vals[mi], resol_vals[ri], stream_vals[si],
                               type_vals[ti], step_vals, fcmonth_vals)])])])])
    IN  IF "date" \notin DOMAIN for_urls \/ "time" \notin DOMAIN for_urls
        THEN Err("InvalidRequest")
        ELSE IF \E di \in 1..Len(date_vals), ti \in 1..Len(time_vals) :
                    ~Dt(date_vals[di], time_vals[ti]).ok
        THEN Err("InvalidRequest")
        ELSE Ok([urls |->
                    Flatten([di \in 1..Len(date_vals) |->
                      Flatten([ti \in 1..Len(time_vals) |->
                        OfDt(Dt(date_vals[di], time_vals[ti]).v)])]),
                 dates |-> {Dt(date_vals[di], time_vals[ti]).v :
                              di \in 1..Len(date_vals), ti \in 1..Len(time_vals)}])

\* "out_urls" narrowed by the sidecars, when index selection is on
SelectByIndex(res, ranged) ==
    IF ranged.ok THEN Done(Ok([res EXCEPT !.urls = ranged.v]), ranged.log)
    ELSE ranged

\* the Result built from the enumerated URLs
BuildResult(params, use_index, target, for_urls, for_index, listed) ==
    LET target_path ==
            IF target.ok THEN target.v
            ELSE IF "target" \in DOMAIN params /\ as_strings(params["target"]) # <<>>
            THEN as_strings(params["target"])[1]
            ELSE "data.grib2"
        res == [urls |-> unique_preserve(listed.v.urls), target |-> target_path,
                datetime |-> CHOOSE d \in listed.v.dates :
                                \A e \in listed.v.dates : DtLeq(d, e),
                for_urls |-> for_urls, for_index |-> for_index, size_bytes |-> 0]
    IN  IF ~listed.ok THEN Done(listed, <<>>)
        ELSE IF listed.v.dates = {} THEN Done(Err("InvalidRequest"), <<>>)
        ELSE IF use_index /\ DOMAIN for_index # {}
        THEN SelectByIndex(res, expand_urls_to_ranges(res.urls, for_index))
        ELSE Done(Ok(res), <<>>)

\* canonical times, deduplication and lowercasing, the tf exception and the
\* default time, applied to what the loop over the params collected
NormalizeValues(params, model, use_index, target, looped) ==
    LET typ_values_user == as_strings(params["type"])
        user_type == IF typ_values_user = <<>> THEN "fc" ELSE typ_values_user[1]
        times == CanonicalTimes(looped.for_urls["time"])
        timed == IF "time" \in DOMAIN looped.for_urls
                 THEN Insert(looped.for_urls, "time", times.v) ELSE looped.for_urls
        for_urls == OrInsert(DedupLower(timed), "time", <<"18">>)
        for_index == IF user_type = "tf" THEN EmptyMap ELSE DedupLower(looped.for_index)
    IN  IF ~looped.ok THEN Done(Err(looped.err), <<>>)
        ELSE IF "time" \in DOMAIN looped.for_urls /\ ~times.ok
        THEN Done(Err("InvalidRequest"), <<>>)
        ELSE BuildResult(params, use_index, target, for_urls, for_index,
                         EnumerateUrls(for_urls, model))

\* get_urls once "date" is in params
ResolvePlan(params, model, use_index, target) ==
    LET typ_values_user == as_strings(params["type"])
        mapped_types == [i \in 1..Len(typ_values_user) |->
                            user_to_url_value(model, "type", typ_values_user[i], <<>>)]
        for_urls_type == IF mapped_types = <<>> THEN <<"fc">> ELSE mapped_types
        InParams(k) == k \in DOMAIN params
    IN  NormalizeValues(params, model, use_index, target,
            ProcessParams(SelectSeq(KeyOrder, InParams), params, model,
                [ok |-> TRUE, err |-> "",
                 for_urls |-> Insert(EmptyMap, "type", unique_preserve(for_urls_type)),
                 for_index |-> EmptyMap]))

(***************************************************************************)
(* Client::latest_inner and Client::get_urls.  Besides [ok, err, v, log]   *)
(* both report probed, the candidate cycles the prober tried, and entries, *)
(* the number of times latest_inner was entered.                           *)
(***************************************************************************)
Traced(r, log, probed, entries) ==
    [ok |-> r.ok, err |-> r.err, v |-> r.v, log |-> log,
     probed |-> probed, entries |-> entries]

\* the loop `for u in &res.urls { if !self.probe_exists(..)? { break } }`
RECURSIVE ProbeAll(_)
ProbeAll(urls) ==
    LET First(first, rest) ==
            IF ~first.ok \/ ~first.v THEN first
            ELSE Done(rest, first.log \o rest.log)
    IN  IF urls = <<>> THEN Done(Ok(TRUE), <<>>)
        ELSE First(probe_exists(apply_sas_to_url(urls[1])), ProbeAll(Tail(urls)))

\* "Search back up to ~5 days."
SearchDays == 5

RECURSIVE get_urls(_, _, _)
RECURSIVE LatestLoop(_, _, _, _, _)

\* what a call reports when it follows another: its own result, after the
\* requests and probes of the first
Following(first, then) ==
    Traced(then, first.log \o then.log, first.probed \o then.probed,
           first.entries + then.entries)

\* one turn of the `loop` of latest_inner, the candidate's URLs resolved:
\* Ok(candidate) or the error the turn returns, None when the loop goes on
LatestCandidate(candidate, res) ==
    LET probes == ProbeAll(res.v.urls)
    IN  IF ~res.ok THEN Traced(res, res.log, <<candidate>>, res.entries)
        ELSE IF res.v.urls = <<>>
        THEN Traced(None, res.log, <<candidate>>, res.entries)
        ELSE IF ~probes.ok
        THEN Traced(probes, res.log \o probes.log, <<candidate>>, res.entries)
        ELSE Traced(IF probes.v THEN Ok(candidate) ELSE None,
                    res.log \o probes.log, <<candidate>>, res.entries)

\* a turn that returned nothing: the loop goes on to the next candidate
GoesOn(turn) == ~turn.ok /\ turn.err = "None"

\* the turns of the `loop` from one candidate on, up to the first that returns
LatestLoop(params, candidate, stop, has_time, time_hour) ==
    LET probe_hour == IF has_time THEN time_hour ELSE candidate.h
        tmp_req == Insert(Insert(params, "date", RvStr(yyyymmdd(candidate))),
                          "time", RvInt(probe_hour))
        Then(turn, rest) == IF GoesOn(turn) THEN <<turn>> \o rest ELSE <<turn>>
    IN  IF DtLeq(candidate, stop) THEN <<>>
        ELSE Then(LatestCandidate(candidate, get_urls(tmp_req, FALSE, None)),
                  LatestLoop(params, IF has_time THEN PrevDay(candidate)
                                     ELSE SubHours(candidate, 6),
                             stop, has_time, time_hour))

\* the turns of the loop one after the other
RECURSIVE InOrder(_)
InOrder(turns) ==
    IF Len(turns) = 1 THEN turns[1]
    ELSE Following(InOrder(SubSeq(turns, 1, Len(turns) - 1)), turns[Len(turns)])

\* what latest_inner returns after the turns of its loop
LatestResult(turns) ==
    LET Returned(all) ==
            IF GoesOn(all)
            THEN Traced(Err("CannotEstablishLatest"), all.log, all.probed, all.entries)
            ELSE all
    IN  Following(Traced(Ok(<<>>), <<>>, <<>>, 1), Returned(InOrder(turns)))

latest_inner(req) ==
    LET has_time == "time" \in DOMAIN req
        first_time == IF as_strings(req["time"]) = <<>> THEN "18"
                      ELSE as_strings(req["time"])[1]
        time_hour == IF has_time THEN canonical_time_to_hour(first_time) ELSE Ok(18)
        today == [now EXCEPT !.h = time_hour.v]
        start == IF has_time
                 THEN (IF DtLess(now, today) THEN PrevDay(today) ELSE today)
                 ELSE [now EXCEPT !.h = (now.h \div 6) * 6]
        stop  == AddDays(start, 0 - SearchDays)
    IN  IF ~time_hour.ok THEN Traced(Err("InvalidRequest"), <<>>, <<>>, 1)
        ELSE IF DtLeq(start, stop)
        THEN Traced(Err("CannotEstablishLatest"), <<>>, <<>>, 1)
        ELSE LatestResult(LatestLoop(req, start, stop, has_time, time_hour.v))

\* get_urls from "If date missing, resolve latest" on: latest is the prober's
\* result, or Ok without a value when the request has a date
ResolveDated(p2, model, use_index, target, latest) ==
    IF ~latest.ok THEN latest
    ELSE Following(latest,
            ResolvePlan(IF "date" \in DOMAIN p2 THEN p2
                        ELSE OrInsert(Insert(p2, "date", RvStr(yyyymmdd(latest.v))),
                                      "time", RvInt(latest.v.h)),
                        model, use_index, target))

get_urls(req, use_index, target) ==
    LET model == IF "model" \in DOMAIN req /\ as_strings(req["model"]) # <<>>
                 THEN as_strings(req["model"])[1] ELSE opts.model
        p1 == IF model = "aifs-ens" /\ "stream" \notin DOMAIN req
              THEN Insert(req, "stream", RvStr("enfo")) ELSE req
        p2 == OrInsert(OrInsert(OrInsert(OrInsert(OrInsert(p1,
                    "model", RvStr(model)),
                    "resol", RvStr(opts.resol)),
                    "type", RvStr("fc")),
                    "stream", RvStr("oper")),
                    "step", RvInt(0))
    IN  ResolveDated(p2, model, use_index, target,
                     IF "date" \in DOMAIN p2 THEN Traced(Ok(<<>>), <<>>, <<>>, 0)
                     ELSE latest_inner(p2))

(***************************************************************************)
(* Client::download_result.  The target file is the list of the bodies     *)
(* written, a body being [url, first, last]: the bytes first..last of the  *)
(* blob at url.                                                            *)
(***************************************************************************)
Body(url, first, last) == [url |-> url, first |-> first, last |-> last]
BodyLen(b) == b.last - b.first + 1

\* what a successful GET returns: the range when the server honours it (206)
ResponseBody(url, status, range) ==
    IF status = 206 THEN Body(url, range[1], range[2])
    ELSE Body(url, 0, srv.blob_len - 1)

\* one GET of the download loop: Ok(body) or Http
Fetch(url, ranged, range) ==
    LET status == GetStatus(url, ranged)
    IN  IF status = TransportError \/ IsErrorStatus(status) THEN Err("Http")
        ELSE Ok(ResponseBody(url, status, range))

\* the GETs of one ranged plan entry, until the first failure
RECURSIVE FetchRanges(_, _)
FetchRanges(url, ranges) ==
    LET Got(init, log, got) ==
            IF ~init.ok THEN init
            ELSE IF ~got.ok THEN [init EXCEPT !.ok = FALSE, !.err = got.err, !.log = log]
            ELSE [init EXCEPT !.file = Append(@, got.v), !.log = log]
        Range(init, r) ==
            Got(init,
                Append(init.log,
                       HttpReq("GET", apply_sas_to_url(url),
                               "bytes=" \o IntToString(r[1]) \o "-" \o IntToString(r[2]))),
                Fetch(apply_sas_to_url(url), TRUE, r))
    IN  IF ranges = <<>> THEN [ok |-> TRUE, err |-> "", file |-> <<>>, log |-> <<>>]
        ELSE Range(FetchRanges(url, SubSeq(ranges, 1, Len(ranges) - 1)),
                   ranges[Len(ranges)])

\* the loop `for u in &res.urls` of download_result
RECURSIVE DownloadUrls(_, _)
DownloadUrls(urls, is_partial) ==
    LET Parts(init, parts) ==
            [ok |-> parts.ok, err |-> parts.err, file |-> init.file \o parts.file,
             log |-> init.log \o parts.log]
        Partial(init, split) ==
            IF ~split.ok THEN [init EXCEPT !.ok = FALSE, !.err = split.err]
            ELSE Parts(init, FetchRanges(split.v.url, split.v.ranges))
        Whole(init, wlog, whole) ==
            IF ~whole.ok
            THEN [init EXCEPT !.ok = FALSE, !.err = whole.err, !.log = wlog]
            ELSE [init EXCEPT !.file = Append(@, whole.v), !.log = wlog]
        Entry(init, u) ==
            IF ~init.ok THEN init
            ELSE IF is_partial THEN Partial(init, split_url_ranges(u))
            ELSE Whole(init, Append(init.log, HttpReq("GET", apply_sas_to_url(u), "")),
                       Fetch(apply_sas_to_url(u), FALSE, <<>>))
    IN  IF urls = <<>> THEN [ok |-> TRUE, err |-> "", file |-> <<>>, log |-> <<>>]
        ELSE Entry(DownloadUrls(SubSeq(urls, 1, Len(urls) - 1), is_partial),
                   urls[Len(urls)])

RECURSIVE SumLen(_)
SumLen(file) ==
    IF file = <<>> THEN 0
    ELSE SumLen(SubSeq(file, 1, Len(file) - 1)) + BodyLen(file[Len(file)])

\* variant: size_bytes is the length of the last body written, not the total
download_result_last_body(res, is_partial) ==
    LET Written(got) ==
            [ok |-> got.ok, err |-> got.err,
             v |-> IF got.ok
                   THEN [res EXCEPT !.size_bytes =
                            IF got.file = <<>> THEN 0
                            ELSE BodyLen(got.file[Len(got.file)])]
                   ELSE <<>>,
             log |-> got.log, file |-> got.file]
    IN  Written(DownloadUrls(res.urls, is_partial))

\* Ok(plan with size_bytes) or the error, with the file as it was left
download_result(res, is_partial) ==
    LET Written(got) ==
            [ok |-> got.ok, err |-> got.err,
             v |-> IF got.ok THEN [res EXCEPT !.size_bytes = SumLen(got.file)] ELSE <<>>,
             log |-> got.log, file |-> got.file]
    IN  Written(DownloadUrls(res.urls, is_partial))

(***************************************************************************)
(* The public operations, and what one call leaves behind.                 *)
(***************************************************************************)
\* what a call of retrieve or download leaves behind, URL resolution done
Transferred(op, is_partial, res) ==
    LET got == download_result(res.v, is_partial)
    IN  IF ~res.ok
        THEN [op |-> op, ok |-> FALSE, err |-> res.err, resolved |-> FALSE,
              plan |-> <<>>, value |-> <<>>, log |-> res.log, file |-> <<>>,
              probed |-> res.probed, entries |-> res.entries]
        ELSE [op |-> op, ok |-> got.ok, err |-> got.err, resolved |-> TRUE,
              plan |-> res.v, value |-> got.v, log |-> res.log \o got.log,
              file |-> got.file, probed |-> res.probed, entries |-> res.entries]

\* Client::retrieve (is_partial = TRUE) and Client::download (FALSE)
Transfer(op, req, target, is_partial) ==
    Transferred(op, is_partial, get_urls(req, is_partial, Some(target)))

retrieve(req, target) == Transfer("retrieve", req, target, TRUE)

download(req, target) == Transfer("download", req, target, FALSE)

\* what a call of latest leaves behind
Established(res) ==
    [op |-> "latest", ok |-> res.ok, err |-> res.err, resolved |-> FALSE,
     plan |-> <<>>, value |-> res.v, log |-> res.log, file |-> <<>>,
     probed |-> res.probed, entries |-> res.entries]

latest(req) == Established(latest_inner(req))

NoOutcome ==
    [op |-> "", ok |-> FALSE, err |-> "", resolved |-> FALSE, plan |-> <<>>,
     value |-> <<>>, log |-> <<>>, file |-> <<>>, probed |-> <<>>, entries |-> 0]

Target == "out.grib2"

Retrieve ==
    /\ pc = "idle"
    /\ outcome' = retrieve(request, Target)
    /\ pc' = "done"
    /\ UNCHANGED <<now, opts, srv, request>>

Download ==
    /\ pc = "idle"
    /\ outcome' = download(request, Target)
    /\ pc' = "done"
    /\ UNCHANGED <<now, opts, srv, request>>

Latest ==
    /\ pc = "idle"
    /\ outcome' = latest(request)
    /\ pc' = "done"
    /\ UNCHANGED <<now, opts, srv, request>>

Next == Retrieve \/ Download \/ Latest

(***************************************************************************)
(* Initial states.  The clock, the store and the request are inputs; the   *)
(* three specifications draw them from different sets.                     *)
(***************************************************************************)
DefaultOpts ==
    [source |-> "ecmwf", model |-> "ifs", resol |-> "0p25", beta |-> FALSE,
     preserve_request_order |-> FALSE, infer_stream_keyword |-> TRUE,
     sas_token |-> ""]

Clock == [y |-> 2024, m |-> 1, d |-> 3, h |-> 7]

\* the stamps of the n six-hourly cycles ending at dt
RECURSIVE CyclesBack(_, _)
CyclesBack(dt, n) ==
    IF n = 0 THEN {}
    ELSE {FormatStamp(dt)} \cup CyclesBack(SubHours(dt, 6), n - 1)

\* the most recent cycle at or before a clock reading
CurrentCycle(clock) == [clock EXCEPT !.h = (clock.h \div 6) * 6]

\* an index line of every blob whose URL contains blob
Line(blob, fields, offset, length) ==
    [blob |-> blob,
     obj  |-> fields @@ ("_offset" :> JNum(offset)) @@ ("_length" :> JNum(length))]

Msg(param, offset, length) == Line("", "param" :> JStr(param), offset, length)

StoreIndex ==
    <<Msg("msl", 2000, 10), Msg("2t", 1000, 10), Msg("10u", 1010, 5),
      Line("-ef.", ("param" :> JStr("msl")) @@ ("type" :> JStr("cf")), 3000, 10),
      Line("-ep.", ("param" :> JStr("msl")) @@ ("step" :> JStr("0-360")), 4000, 10)>>

Store ==
    [published |-> CyclesBack(CurrentCycle(Clock), 40), head |-> 0, get |-> 0,
     index |-> StoreIndex, blob_len |-> 5000]

\* the values a request may give each keyword; the first is the base request's
DateChoices ==
    <<Some(RvStr("20240101")), None, Some(RvStr("20240101/to/20240103")),
      Some(RvInt(-1)), Some(RvStrList(<<"20240102", "20240102">>)),
      Some(RvStr("2024-01-02")), Some(RvStr("20240230"))>>
TimeChoices ==
    <<Some(RvInt(0)), None, Some(RvInt(6)), Some(RvStr("1200")), Some(RvInt(1800)),
      Some(RvIntList(<<0, 12>>)), Some(RvStr("0/to/18")), Some(RvStr("06")),
      Some(RvStrList(<<"6", "600">>)), Some(RvInt(7)), Some(RvStr("0/12"))>>
TypeChoices ==
    <<None, Some(RvStr("fc")), Some(RvStr("tf")), Some(RvStrList(<<"FC", "fc">>)),
      Some(RvStr("ep")), Some(RvStr("cf")), Some(RvStrList(<<"cf", "pf">>)),
      Some(RvStr("em/es")), Some(RvStr("ef"))>>
StreamChoices ==
    <<None, Some(RvStr("oper")), Some(RvStr("mmsa")), Some(RvStr("wave")),
      Some(RvStrList(<<"enfo", "ENFO">>))>>
StepChoices ==
    <<None, Some(RvInt(240)), Some(RvStr("0/to/12/by/6")), Some(RvStr("0-360")),
      Some(RvIntList(<<0, 6, 0>>))>>
ParamChoices ==
    <<Some(RvStr("msl")), None, Some(RvStrList(<<"msl", "2t">>)),
      Some(RvStr("2t/10u"))>>
FcmonthChoices == <<None, Some(RvIntList(<<1, 2>>))>>
ModelChoices == <<None, Some(RvStr("aifs-ens")), Some(RvStr("aifs-single"))>>

Keyword(k, choice) == IF choice.ok THEN k :> choice.v ELSE EmptyMap

MakeRequest(d, t, ty, st, sp, pa, fm, mo) ==
    Keyword("date", DateChoices[d]) @@ Keyword("time", TimeChoices[t])
        @@ Keyword("type", TypeChoices[ty]) @@ Keyword("stream", StreamChoices[st])
        @@ Keyword("step", StepChoices[sp]) @@ Keyword("param", ParamChoices[pa])
        @@ Keyword("fcmonth", FcmonthChoices[fm]) @@ Keyword("model", ModelChoices[mo])

\* how many keywords a request may change from the base request
MaxVaried == 2

Requests ==
    {MakeRequest(c[1], c[2], c[3], c[4], c[5], c[6], c[7], c[8]) :
        c \in {c \in (1..Len(DateChoices)) \X (1..Len(TimeChoices))
                        \X (1..Len(TypeChoices)) \X (1..Len(StreamChoices))
                        \X (1..Len(StepChoices)) \X (1..Len(ParamChoices))
                        \X (1..Len(FcmonthChoices)) \X (1..Len(ModelChoices)) :
                    Cardinality({i \in 1..8 : c[i] # 1}) <= MaxVaried}}

Init ==
    /\ now = Clock
    /\ opts \in {[DefaultOpts EXCEPT !.preserve_request_order = b] : b \in BOOLEAN}
    /\ srv = Store
    /\ request \in Requests
    /\ pc = "idle"
    /\ outcome = NoOutcome

Spec == Init /\ [][Next]_vars

(***************************************************************************)
(* SpecIndex: one dated request against sidecars of every shape.           *)
(***************************************************************************)
MaxLines == 3

IndexParams == {"msl", "2t"}
IndexOffsets == {0, 1000}
IndexLengths == {500, 1000}

\* lines that lie apart (0+500, 1000), touch (0+1000, 1000) or overlap (same
\* offset, different lengths)
IndexLines ==
    {Msg(p, o, l) : p \in IndexParams, o \in IndexOffsets, l \in IndexLengths}

Sidecars == UNION {[1..n -> IndexLines] : n \in 1..MaxLines}

IndexRequests ==
    {("date" :> RvStr("20240101")) @@ ("time" :> RvInt(0)) @@ ("param" :> pa) :
        pa \in {RvStrList(<<"msl", "2t">>), RvStr("2t")}}

InitIndex ==
    /\ now = Clock
    /\ opts \in {[DefaultOpts EXCEPT !.preserve_request_order = b] : b \in BOOLEAN}
    /\ srv \in {[Store EXCEPT !.index = body] : body \in Sidecars}
    /\ request \in IndexRequests
    /\ pc = "idle"
    /\ outcome = NoOutcome

SpecIndex == InitIndex /\ [][Next]_vars

(***************************************************************************)
(* SpecEmptyEntries: as SpecIndex, with sidecar lines of length 0 among    *)
(* the others.                                                             *)
(***************************************************************************)
EmptyLengths == {0, 1000}

EmptyLines ==
    {Msg(p, o, l) : p \in IndexParams, o \in IndexOffsets, l \in EmptyLengths}

InitEmptyEntries ==
    /\ now = Clock
    /\ opts \in {[DefaultOpts EXCEPT !.preserve_request_order = b] : b \in BOOLEAN}
    /\ srv \in {[Store EXCEPT !.index = body] :
                    body \in UNION {[1..n -> EmptyLines] : n \in 1..MaxLines}}
    /\ request \in IndexRequests
    /\ pc = "idle"
    /\ outcome = NoOutcome

SpecEmptyEntries == InitEmptyEntries /\ [][Next]_vars

(***************************************************************************)
(* SpecLatest: requests without a date against stores that lag behind the  *)
(* clock, answer HEAD and GET in different ways, or hold nothing.          *)
(***************************************************************************)
MaxLag == 3

Clocks ==
    {Clock, [y |-> 2024, m |-> 1, d |-> 1, h |-> 0], [y |-> 2024, m |-> 3, d |-> 2, h |-> 23]}

\* the store as it is when its newest cycle is lag cycles behind the clock
RECURSIVE Lagging(_, _)
Lagging(cycle, lag) ==
    IF lag = 0 THEN CyclesBack(cycle, 40) ELSE Lagging(SubHours(cycle, 6), lag - 1)

LatestRequests ==
    {Keyword("time", t) @@ Keyword("step", sp) @@ ("param" :> RvStr("msl")) :
        t \in {None, Some(RvInt(0)), Some(RvInt(18)), Some(RvIntList(<<0, 12>>)),
               Some(RvIntList(<<12, 0>>))},
        sp \in {None, Some(RvIntList(<<0, 6>>))}}

InitLatest ==
    /\ now \in Clocks
    /\ opts = DefaultOpts
    /\ \E pub \in {Lagging(CurrentCycle(now), lag) : lag \in 0..MaxLag} \cup {{}},
          head \in {0, TransportError, 403, 301}, get \in {0, TransportError} :
            srv = [Store EXCEPT !.published = pub, !.head = head, !.get = get]
    /\ request \in LatestRequests
    /\ pc = "idle"
    /\ outcome = NoOutcome

SpecLatest == InitLatest /\ [][Next]_vars

(***************************************************************************)
(* SpecGrammar: the value grammar on its own.  The request holds one raw   *)
(* text under the key "value"; parse_auto and expand_numeric_syntax are    *)
(* applied to it.                                                          *)
(***************************************************************************)
Computed(op, res) ==
    [NoOutcome EXCEPT !.op = op, !.ok = res.ok, !.err = res.err, !.value = res.v]

ParseAuto ==
    /\ pc = "idle"
    /\ outcome' = Computed("parse_auto", Ok(parse_auto(request["value"].val)))
    /\ pc' = "done"
    /\ UNCHANGED <<now, opts, srv, request>>

ExpandNumeric ==
    /\ pc = "idle"
    /\ outcome' = Computed("expand_numeric_syntax",
                           expand_numeric_syntax(request["value"].val))
    /\ pc' = "done"
    /\ UNCHANGED <<now, opts, srv, request>>

NextGrammar == ParseAuto \/ ExpandNumeric

\* list items as a user may type them
ItemChoices == <<"1", "-2", "+3", "0-24", "msl", "", " 7", "1 2">>

\* how many items a typed list may have
MaxItems == 3

RECURSIVE Join(_, _)
Join(items, sep) ==
    IF Len(items) = 1 THEN items[1]
    ELSE items[1] \o sep \o Join(Tail(items), sep)

\* a text as typed: bare, in brackets, in brackets with blanks, or with an
\* opening bracket only
Wrapped(w, t) ==
    CASE w = 1 -> t
      [] w = 2 -> "[" \o t \o "]"
      [] w = 3 -> " [ " \o t \o " ] "
      [] w = 4 -> "[" \o t

ListTexts ==
    {Wrapped(w, Join([i \in DOMAIN items |-> ItemChoices[items[i]]], ",")) :
        w \in 1..4, items \in UNION {[1..n -> 1..Len(ItemChoices)] : n \in 1..MaxItems}}

\* the tokens a value in slash form is made of
TokenChoices == <<"0", "1", "2", "3", "to", "by", "x", "">>

\* how many tokens a free slash form may have
MaxTokens == 3

SlashTexts ==
    {Join([i \in DOMAIN tokens |-> TokenChoices[tokens[i]]], "/") :
        tokens \in UNION {[1..n -> 1..Len(TokenChoices)] : n \in 1..MaxTokens}}

\* the greatest bound of a small range, and the greatest step
MaxBound == 3
MaxStep == 3

\* the bounds a range is written with: both small, or both at the top of i64
BoundPairs ==
    ((0 - MaxBound)..MaxBound) \X ((0 - MaxBound)..MaxBound)
        \cup {I64_MAX - 2, I64_MAX - 1, I64_MAX} \X {I64_MAX - 2, I64_MAX - 1, I64_MAX}

ToText(a, b) == IntToString(a) \o "/to/" \o IntToString(b)

RangeTexts ==
    {ToText(p[1], p[2]) : p \in BoundPairs}
        \cup {ToText(p[1], p[2]) \o "/by/" \o IntToString(c) :
                 p \in BoundPairs, c \in 0..MaxStep}

Texts == ListTexts \cup SlashTexts \cup RangeTexts

InitGrammar ==
    /\ now = Clock
    /\ opts = DefaultOpts
    /\ srv = Store
    /\ request \in {"value" :> RvStr(t) : t \in Texts}
    /\ pc = "idle"
    /\ outcome = NoOutcome

SpecGrammar == InitGrammar /\ [][NextGrammar]_vars

(***************************************************************************)
(* SpecProbe: the existence probe on its own, against stores that answer   *)
(* HEAD and the ranged GET in every way the probe tells apart.             *)
(***************************************************************************)
HeadAnswers ==
    {0, TransportError, 200, 204, 301, 400, 401, 403, 404, 405, 409, 429,
     500, 501, 502, 503, 504}

GetAnswers == {0, TransportError, 200, 206, 404, 416, 503}

\* a data URL of a published cycle and one of a cycle that is not
ProbeUrls ==
    {"https://data.ecmwf.int/forecasts/20240101/00z/ifs/0p25/oper/20240101000000-0h-oper-fc.grib2",
     "https://data.ecmwf.int/forecasts/20240201/00z/ifs/0p25/oper/20240201000000-0h-oper-fc.grib2"}

Probed(res) ==
    [NoOutcome EXCEPT !.op = "probe_exists", !.ok = res.ok, !.err = res.err,
                      !.value = res.v, !.log = res.log]

ProbeExists ==
    /\ pc = "idle"
    /\ \E url \in ProbeUrls : outcome' = Probed(probe_exists(apply_sas_to_url(url)))
    /\ pc' = "done"
    /\ UNCHANGED <<now, opts, srv, request>>

InitProbe ==
    /\ now = Clock
    /\ opts = DefaultOpts
    /\ \E head \in HeadAnswers, get \in GetAnswers :
          srv = [Store EXCEPT !.head = head, !.get = get]
    /\ request = EmptyMap
    /\ pc = "idle"
    /\ outcome = NoOutcome

SpecProbe == InitProbe /\ [][ProbeExists]_vars

(***************************************************************************)
(* SpecDate: the date and time normaliser on its own.  The request holds   *)
(* one raw text, under "time" or under "date".                             *)
(***************************************************************************)
CanonicalTime ==
    /\ pc = "idle"
    /\ "time" \in DOMAIN request
    /\ outcome' = Computed("canonical_time_to_hour",
                           canonical_time_to_hour(request["time"].val))
    /\ pc' = "done"
    /\ UNCHANGED <<now, opts, srv, request>>

ExpandTime ==
    /\ pc = "idle"
    /\ "time" \in DOMAIN request
    /\ outcome' = Computed("expand_time_value", expand_time_value(request["time"].val))
    /\ pc' = "done"
    /\ UNCHANGED <<now, opts, srv, request>>

ExpandDate ==
    /\ pc = "idle"
    /\ "date" \in DOMAIN request
    /\ outcome' = Computed("expand_date_value", expand_date_value(request["date"].val, now))
    /\ pc' = "done"
    /\ UNCHANGED <<now, opts, srv, request>>

NextDate == CanonicalTime \/ ExpandTime \/ ExpandDate

\* the characters a time is typed with
TimeChars == <<"0", "1", "2", "6", "8", " ", "+", "-">>

\* how long a typed time may be
MaxTimeLen == 4

RECURSIVE Concat(_)
Concat(parts) == IF parts = <<>> THEN "" ELSE parts[1] \o Concat(Tail(parts))

TimeTexts ==
    {Concat([i \in DOMAIN cs |-> TimeChars[cs[i]]]) :
        cs \in UNION {[1..n -> 1..Len(TimeChars)] : n \in 1..MaxTimeLen}}

\* the hours a time range is written with, and its strides
TimeBounds == {0, 1, 5, 6, 12, 18, 23}

TimeRanges ==
    {ToText(a, b) : a, b \in TimeBounds}
        \cup {ToText(a, b) \o "/by/" \o IntToString(c) : a, b \in TimeBounds, c \in {1, 5, 6}}
        \cup {"0/TO/18", "x/to/6", "0/to/x", "0/to/6/x", "0/6/12"}

\* the dates a date range is written with: around a year's end (compact,
\* dashed, relative to today) and around a leap day (one of them no date)
DateBounds ==
    {{"20231229", "2024-01-02", "0", "-2"}, {"20240227", "2024-03-01", "20240230"}}

\* the strides it is written with
DateStrides == {"1", "2", "7", "100000000", "0", "x"}

DateTexts ==
    UNION {{a \o "/to/" \o b : a, b \in ds} : ds \in DateBounds}
        \cup UNION {{a \o "/to/" \o b \o "/by/" \o c : a, b \in ds, c \in DateStrides} :
                       ds \in DateBounds}
        \cup UNION DateBounds
        \cup {"20231229/TO/20240102", "20231229/to/20240102/BY/2", "20231229/20240102"}

InitDate ==
    /\ now = Clock
    /\ opts = DefaultOpts
    /\ srv = Store
    /\ request \in {"time" :> RvStr(t) : t \in TimeTexts \cup TimeRanges}
                    \cup {"date" :> RvStr(t) : t \in DateTexts}
    /\ pc = "idle"
    /\ outcome = NoOutcome

SpecDate == InitDate /\ [][NextDate]_vars

(***************************************************************************)
(* SpecUrl: the aliasing of url_builder.rs on its own.  The request holds  *)
(* a model, a type, a stream and a two-digit hour.                         *)
(***************************************************************************)
UserToUrlValue ==
    /\ pc = "idle"
    /\ \E key \in {"type", "stream"} :
          outcome' = Computed("user_to_url_value",
                        Ok([key |-> key,
                            v   |-> user_to_url_value(request["model"].val, key,
                                                      request[key].val, <<>>)]))
    /\ pc' = "done"
    /\ UNCHANGED <<now, opts, srv, request>>

PatchStream ==
    /\ pc = "idle"
    /\ outcome' = Computed("patch_stream",
                    Ok(patch_stream(opts.infer_stream_keyword, request["model"].val,
                                    request["stream"].val, request["time"].val,
                                    request["type"].val)))
    /\ pc' = "done"
    /\ UNCHANGED <<now, opts, srv, request>>

NextUrl == UserToUrlValue \/ PatchStream

UrlModels == {"ifs", "aifs-ens", "aifs-single"}
UrlTypes == {"fc", "cf", "pf", "em", "es", "ep", "ef", "fcmean", "tf", "xx"}
UrlStreams == {"oper", "wave", "scda", "scwv", "enfo", "waef", "mmsa"}
UrlHours == {"00", "06", "12", "18"}

InitUrl ==
    /\ now = Clock
    /\ opts \in {[DefaultOpts EXCEPT !.infer_stream_keyword = b] : b \in BOOLEAN}
    /\ srv = Store
    /\ request \in {("model" :> RvStr(m)) @@ ("type" :> RvStr(t))
                        @@ ("stream" :> RvStr(st)) @@ ("time" :> RvStr(h)) :
                      m \in UrlModels, t \in UrlTypes, st \in UrlStreams, h \in UrlHours}
    /\ pc = "idle"
    /\ outcome = NoOutcome

SpecUrl == InitUrl /\ [][NextUrl]_vars

(***************************************************************************)
(* Properties.                                                             *)
(***************************************************************************)
Finished == pc = "done"

\* the request gives keyword k exactly the value rv
KeyIs(k, rv) ==
    k \in DOMAIN request /\ request[k].tag = rv.tag /\ request[k].val = rv.val

NoDuplicates(xs) == \A i, j \in 1..Len(xs) : i # j => xs[i] # xs[j]

\* the ranges a plan entry carries after its '|'
RangesOf(entry) == split_url_ranges(entry).v.ranges

\* a range list that is sorted by start and merged: neighbours neither
\* overlap nor touch
SortedMerged(rs) ==
    /\ \A i \in 1..Len(rs) : rs[i][1] <= rs[i][2]
    /\ \A i \in 1..(Len(rs) - 1) : rs[i + 1][1] > rs[i][1] /\ rs[i + 1][1] > rs[i][2] + 1

\* the sidecar lines of a plan entry that lie inside one of its ranges, as
\* positions of their param in the request's param list
ParamRanks(entry, range) ==
    LET body == IndexBody(split_url_ranges(entry).v.url)
    IN  {Position(outcome.plan.for_index["param"], body[i]["param"].v) :
            i \in {i \in 1..Len(body) :
                    /\ InSeq(body[i]["param"].v, outcome.plan.for_index["param"])
                    /\ body[i]["_offset"].v >= range[1]
                    /\ body[i]["_offset"].v <= range[2]}}

\* C1: with preserve_request_order = true the ranges encoded for each data URL
\* appear in requested order: of two ranges, the earlier one holds the index
\* lines whose param comes first in the request (A(msl), B(2t) and
\* param = [msl, 2t] give [A, B] wherever A and B lie in the file).
C1_RangesInRequestedOrder ==
    (Finished /\ outcome.op = "retrieve" /\ outcome.resolved
        /\ opts.preserve_request_order)
    => \A e \in 1..Len(outcome.plan.urls) :
         LET entry == outcome.plan.urls[e]
             rs == RangesOf(entry)
         IN  \A i, j \in 1..Len(rs) :
                i < j => \A a \in ParamRanks(entry, rs[i]), b \in ParamRanks(entry, rs[j]) :
                            a <= b

\* C2: date = "20240101/to/20240103" given as one string (time 0, type fc,
\* step 0) resolves, without failing, into exactly the three data URLs of
\* 2024-01-01T00Z, 2024-01-02T00Z and 2024-01-03T00Z, in that order.
C2_DateRangeResolves ==
    (Finished /\ outcome.op = "download"
        /\ KeyIs("date", RvStr("20240101/to/20240103")) /\ KeyIs("time", RvInt(0))
        /\ ("type" \in DOMAIN request => KeyIs("type", RvStr("fc")))
        /\ DOMAIN request \subseteq {"date", "time", "type", "param"})
    => /\ outcome.resolved
       /\ outcome.plan.urls =
            <<"https://data.ecmwf.int/forecasts/20240101/00z/ifs/0p25/oper/20240101000000-0h-oper-fc.grib2",
              "https://data.ecmwf.int/forecasts/20240102/00z/ifs/0p25/oper/20240102000000-0h-oper-fc.grib2",
              "https://data.ecmwf.int/forecasts/20240103/00z/ifs/0p25/oper/20240103000000-0h-oper-fc.grib2">>

TracksUrl ==
    "https://data.ecmwf.int/forecasts/20240101/00z/ifs/0p25/oper/20240101000000-0h-oper-tf.bufr"

\* C3: for type tf with date and time given, retrieve and download both
\* resolve one bare .bufr URL, fetch no .index sidecar and complete by one
\* full-body GET whose body is written to the target.
C3_TracksFetchedWhole ==
    (Finished /\ outcome.op \in {"retrieve", "download"}
        /\ KeyIs("type", RvStr("tf")) /\ KeyIs("date", RvStr("20240101"))
        /\ KeyIs("time", RvInt(0)) /\ DOMAIN request \subseteq {"date", "time", "type", "param"})
    => /\ outcome.ok
       /\ outcome.plan.urls = <<TracksUrl>>
       /\ outcome.log = <<HttpReq("GET", TracksUrl, "")>>
       /\ outcome.file = <<Body(TracksUrl, 0, srv.blob_len - 1)>>

\* C4: for stream = mmsa every enumerated URL uses the monthly pattern, one URL
\* per fcmonth value with the file name <datetime>-<fcmonth>m-<stream>-<type>,
\* and the stream written in path and file name is mmsf.
C4_MonthlyPattern ==
    (Finished /\ outcome.resolved /\ outcome.op = "download"
        /\ KeyIs("stream", RvStr("mmsa")))
    => \A e \in 1..Len(outcome.plan.urls) :
         /\ Contains(outcome.plan.urls[e], "/mmsf/")
         /\ \E f \in 1..Len(GetOr(outcome.plan.for_urls, "fcmonth", <<"1">>)) :
               Contains(outcome.plan.urls[e],
                        "0000-" \o GetOr(outcome.plan.for_urls, "fcmonth", <<"1">>)[f]
                            \o "m-mmsf-")

\* C5: the ranges merge_ranges produces for the matches of a sidecar (lengths
\* >= 1) never overlap or touch and come in strictly increasing start order,
\* whether preserve_request_order is set or not.
C5_MergedRangesDisjoint ==
    (Finished /\ outcome.op = "retrieve" /\ outcome.resolved)
    => \A e \in 1..Len(outcome.plan.urls) : SortedMerged(RangesOf(outcome.plan.urls[e]))

\* three lines out of file order, two of them overlapping, planned in
\* requested order: they come out as two ranges
C5_Witness ==
    /\ Finished /\ outcome.op = "retrieve" /\ outcome.resolved
    /\ opts.preserve_request_order
    /\ Len(srv.index) = 3
    /\ srv.index[1].obj["_offset"].v > srv.index[3].obj["_offset"].v
    /\ RangesOf(outcome.plan.urls[1]) = <<<<0, 499>>, <<1000, 1999>>>>

\* a plan entry of the form url|ranges with a non-empty, sorted, merged list
Ranged(entry) ==
    /\ Contains(entry, "|")
    /\ split_url_ranges(entry).ok
    /\ RangesOf(entry) # <<>>
    /\ SortedMerged(RangesOf(entry))

TypeIsTracks == "type" \in DOMAIN request /\ as_strings(request["type"]) = <<"tf">>

C7_ForUrlsDistinct ==
    (Finished /\ outcome.resolved)
    => \A k \in DOMAIN outcome.plan.for_urls : NoDuplicates(outcome.plan.for_urls[k])

\* C8: in every plan get_urls returns, each value of for_urls["time"] is one of
\* 00, 06, 12, 18, however the request wrote the time or left it out.
C8_TimesCanonical ==
    (Finished /\ outcome.resolved)
    => /\ "time" \in DOMAIN outcome.plan.for_urls
       /\ \A i \in 1..Len(outcome.plan.for_urls["time"]) :
            outcome.plan.for_urls["time"][i] \in {"00", "06", "12", "18"}

\* the HHMM form 1200 resolved to the hour 12
C8_Witness ==
    /\ Finished /\ outcome.resolved
    /\ KeyIs("time", RvStr("1200"))
    /\ outcome.plan.for_urls["time"] = <<"12">>

\* the number of candidates the 5-day window holds at the request's stride
ProbeBudget == IF "time" \in DOMAIN request THEN SearchDays ELSE SearchDays * 4

\* the prober's own bound on its work: candidates less than 5 days before the
\* first one, at most 20 (6-hour stride) or 5 (1-day stride), no re-entry
WithinWindow ==
    /\ Len(outcome.probed) <= ProbeBudget
    /\ \A i \in 1..Len(outcome.probed) :
         DtLess(AddDays(outcome.probed[1], 0 - SearchDays), outcome.probed[i])
    /\ outcome.entries = 1

\* C9: when no candidate cycle has all its URLs existing, the prober ends with
\* CannotEstablishLatest, having probed only candidates inside the 5-day
\* window (at most 20, or 5 with time given) and never re-entering itself.
C9_ProberExhaustsWindow ==
    (Finished /\ outcome.op = "latest" /\ srv.published = {})
    => ~outcome.ok /\ outcome.err = "CannotEstablishLatest" /\ WithinWindow

\* C10: a probe that fails in transport counts as "does not exist"; it never
\* reaches the caller of latest, retrieve or download as a transport error.
C10_ProbeFailuresSwallowed ==
    (Finished /\ (outcome.op = "latest" \/ (outcome.op = "download" /\ ~outcome.resolved)))
    => outcome.err # "Http"

\* the request the prober resolves for one candidate cycle of a latest call
ProbeRequest(candidate) ==
    Insert(Insert(request, "date", RvStr(yyyymmdd(candidate))),
           "time", RvInt(candidate.h))

\* the candidate has URLs and each of them passes the existence probe
AllUrlsExist(candidate) ==
    LET res == get_urls(ProbeRequest(candidate), FALSE, None)
    IN  /\ res.ok /\ res.v.urls # <<>>
        /\ \A i \in 1..Len(res.v.urls) :
             /\ probe_exists(apply_sas_to_url(res.v.urls[i])).ok
             /\ probe_exists(apply_sas_to_url(res.v.urls[i])).v

\* the candidates tried are a backward walk at the request's stride
BackwardWalk(probed) ==
    \A i \in 1..(Len(probed) - 1) :
        probed[i + 1] = IF "time" \in DOMAIN request THEN PrevDay(probed[i])
                        ELSE SubHours(probed[i], 6)

\* what latest returns is the first candidate of the walk whose URLs all exist
FirstExistingReturned ==
    (Finished /\ outcome.op = "latest" /\ outcome.ok)
    => /\ outcome.probed # <<>>
       /\ BackwardWalk(outcome.probed)
       /\ outcome.value = outcome.probed[Len(outcome.probed)]
       /\ AllUrlsExist(outcome.value)
       /\ \A i \in 1..(Len(outcome.probed) - 1) : ~AllUrlsExist(outcome.probed[i])

\* C11: the prober returns the first candidate of the backward walk whose URL
\* list is non-empty and passes the probe in full, more recent candidates
\* having failed and older ones not being tried; and a plan resolved for a
\* request without date carries that cycle as its datetime.
C11_LatestIsFirstExisting ==
    /\ FirstExistingReturned
    /\ (Finished /\ outcome.resolved /\ "date" \notin DOMAIN request)
       => outcome.plan.datetime = outcome.probed[Len(outcome.probed)]

\* the GETs a transfer of the plan sends: the URLs in plan order and, for a
\* ranged entry, its ranges in encoded order
TransferRequests(plan, is_partial) ==
    Flatten([e \in 1..Len(plan.urls) |->
        IF is_partial
        THEN [i \in 1..Len(RangesOf(plan.urls[e])) |->
                HttpReq("GET", apply_sas_to_url(split_url_ranges(plan.urls[e]).v.url),
                        "bytes=" \o IntToString(RangesOf(plan.urls[e])[i][1])
                            \o "-" \o IntToString(RangesOf(plan.urls[e])[i][2]))]
        ELSE <<HttpReq("GET", apply_sas_to_url(plan.urls[e]), "")>>])

\* the body the store answers a transfer GET with
Answer(req, ranges, is_partial) ==
    ResponseBody(req.url, GetStatus(req.url, is_partial), ranges)

\* the ranges of the plan's entries, one after the other
PlanRanges(plan) ==
    Flatten([e \in 1..Len(plan.urls) |-> RangesOf(plan.urls[e])])

\* the requests of the transfer itself: those after URL resolution
TransferLog == SubSeq(outcome.log, Len(outcome.log) - Len(outcome.file) + 1, Len(outcome.log))

\* C12: after a successful retrieve or download the target file is the
\* bodies of the GETs in plan order (URLs in the order of the plan, ranges in
\* their encoded order), and size_bytes is the number of bytes written.
C12_FileInPlanOrder ==
    (Finished /\ outcome.op \in {"retrieve", "download"} /\ outcome.ok)
    => LET is_partial == outcome.op = "retrieve"
           sent == TransferRequests(outcome.plan, is_partial)
       IN  /\ TransferLog = sent
           /\ Len(outcome.file) = Len(sent)
           /\ \A i \in 1..Len(sent) :
                outcome.file[i] =
                    Answer(sent[i],
                           IF is_partial THEN PlanRanges(outcome.plan)[i] ELSE <<>>,
                           is_partial)
           /\ outcome.value.size_bytes = SumLen(outcome.file)
           /\ outcome.value.urls = outcome.plan.urls

\* two cycles fetched by two ranges each: four bodies of ten bytes
C12_Witness ==
    /\ Finished /\ outcome.op = "retrieve" /\ outcome.ok
    /\ Len(outcome.plan.urls) = 2
    /\ Len(outcome.file) = 4
    /\ outcome.file[1].first = 1000 /\ outcome.file[2].first = 2000
    /\ outcome.file[1].url # outcome.file[3].url
    /\ outcome.value.size_bytes = 40

\* the plan of the request before index selection: the URLs the planner is given
Listed == get_urls(request, FALSE, None)

\* the sidecar of a data URL
SidecarUrl(url) ==
    apply_sas_to_url((IF RFind(url, ".") > 0 THEN SubSeq(url, 1, RFind(url, ".") - 1)
                      ELSE url) \o ".index")

\* some line of the sidecar at index_url matches the request
HasMatch(index_url, ordered_keys, for_index) ==
    \E i \in 1..Len(IndexBody(index_url)) :
        LineMatch(IndexBody(index_url)[i], ordered_keys, for_index).ok

\* the listed URLs that have a matching sidecar line, in listed order
Matched(urls, for_index) ==
    LET InIndex(k) == k \in DOMAIN for_index
        Hit(url) == HasMatch(SidecarUrl(url), SelectSeq(INDEX_COMPONENTS, InIndex), for_index)
    IN  SelectSeq(urls, Hit)

\* the planner runs on the listed plan and every sidecar it asks for is served
PlannerServed(listed) ==
    /\ Finished /\ outcome.op = "retrieve"
    /\ listed.ok /\ DOMAIN listed.v.for_index # {}
    /\ \A i \in 1..Len(listed.v.urls) : GetStatus(SidecarUrl(listed.v.urls[i]), FALSE) = 200

\* what the planner made of the kept URLs
KeptAsPlanned(kept) ==
    /\ outcome.resolved <=> kept # <<>>
    /\ outcome.resolved
       => /\ Len(outcome.plan.urls) = Len(kept)
          /\ \A i \in 1..Len(kept) :
               /\ StartsWith(outcome.plan.urls[i], kept[i] \o "|")
               /\ split_url_ranges(outcome.plan.urls[i]).ok
               /\ split_url_ranges(outcome.plan.urls[i]).v.url = kept[i]
               /\ RangesOf(outcome.plan.urls[i]) # <<>>
    /\ (~outcome.resolved /\ outcome.err = "NoMatchingIndex") <=> kept = <<>>

PlannerKeepsMatched(listed) ==
    PlannerServed(listed) => KeptAsPlanned(Matched(listed.v.urls, listed.v.for_index))

\* C13: the planner returns the input URLs that have a matching sidecar line,
\* in input order, each with a range suffix; a URL without a match is dropped
\* silently; it fails with NoMatchingIndex exactly when no URL has a match.
C13_PlannerKeepsMatchedUrls == PlannerKeepsMatched(Listed)

PlannerDropped(listed) ==
    /\ PlannerServed(listed) /\ outcome.resolved
    /\ Len(outcome.plan.urls) >= 1
    /\ Len(outcome.plan.urls) < Len(listed.v.urls)

\* a plan that kept some of the listed URLs and dropped another
C13_Witness == PlannerDropped(Listed)

\* the values a keyword of the request names, a slash list taken apart
Named(k) == SlashSplit(as_strings(request[k]))

\* the steps the request asks for, range forms expanded
RequestedSteps ==
    IF expand_numeric_syntax(as_strings(request["step"])[1]).ok
          /\ Len(as_strings(request["step"])) = 1
    THEN IF Len(expand_numeric_syntax(as_strings(request["step"])[1]).v) > 1
         THEN expand_numeric_syntax(as_strings(request["step"])[1]).v
         ELSE Named("step")
    ELSE Named("step")

\* the literal a probability product's step is filed under
Bucket(step) == IF end_step(step).v <= 240 THEN "240" ELSE "360"

\* every type the request names is ep in URL space
OnlyProbabilities ==
    /\ "type" \in DOMAIN request
    /\ \A i \in 1..Len(Named("type")) :
          user_to_url_value(opts.model, "type", Named("type")[i], <<>>) = "ep"

\* C14: when every type of the request maps to the URL type ep, for_urls holds
\* for each requested step the literal 240 if the step's end is <= 240 and 360
\* otherwise, and nothing else; type ep with step "0-360" gives URLs of type
\* ep, step 360 and stream enfo.
C14_ProbabilityStepBuckets ==
    (Finished /\ outcome.resolved /\ OnlyProbabilities /\ "step" \in DOMAIN request)
    => /\ \A i \in 1..Len(outcome.plan.for_urls["step"]) :
            \E j \in 1..Len(RequestedSteps) :
                outcome.plan.for_urls["step"][i] = Bucket(RequestedSteps[j])
       /\ \A j \in 1..Len(RequestedSteps) :
            InSeq(Bucket(RequestedSteps[j]), outcome.plan.for_urls["step"])
       /\ (KeyIs("type", RvStr("ep")) /\ KeyIs("step", RvStr("0-360")))
          => \A e \in 1..Len(outcome.plan.urls) :
                Contains(outcome.plan.urls[e], "-360h-enfo-ep.")

\* the map m of a plan names exactly one step
OneStep(m) == "step" \in DOMAIN m /\ Len(m["step"]) = 1

\* C15: a request that omits step is not restricted to a single step, neither
\* in the URLs resolved nor in the index selection.
C15_OmittedStepUnrestricted ==
    (Finished /\ outcome.resolved /\ "step" \notin DOMAIN request)
    => /\ ~OneStep(outcome.plan.for_urls)
       /\ ~OneStep(outcome.plan.for_index)

\* the request leaves type at its default or names fc
PlainForecast == "type" \in DOMAIN request => KeyIs("type", RvStr("fc"))

\* C16: step given as the one string "0/to/12/by/6" is range-expanded, not
\* split on '/': for_urls["step"] and for_index["step"] are [0, 6, 12]; a single
\* value with '/' that is no range form, as param = "2t/10u", is split into a
\* list.
C16_RangeStringExpanded ==
    /\ (Finished /\ outcome.resolved /\ PlainForecast
            /\ KeyIs("step", RvStr("0/to/12/by/6")))
       => /\ outcome.plan.for_urls["step"] = <<"0", "6", "12">>
          /\ outcome.plan.for_index["step"] = <<"0", "6", "12">>
    /\ (Finished /\ outcome.resolved /\ PlainForecast
            /\ KeyIs("param", RvStr("2t/10u")))
       => outcome.plan.for_index["param"] = <<"2t", "10u">>

\* the raw text the grammar is applied to
RawText == request["value"].val

\* a RequestValue of the given variant and content
IsValue(rv, tag, val) == rv.tag = tag /\ rv.val = val

\* an item in range form, as "0-24": a '-' after its first character
RangeItem(it) == Find(SubSeq(it, 2, Len(it)), "-") > 0

\* the classification of the unbracketed text t as rv; on_empty is what is
\* asked of a text with a comma and no non-empty item
AutoTyped(t, rv, on_empty) ==
    /\ IF Contains(t, ",")
       THEN IF CommaItems(t) = <<>> THEN on_empty
            ELSE IF \A i \in 1..Len(CommaItems(t)) : ParseI64(CommaItems(t)[i]).ok
            THEN IsValue(rv, "IntList",
                         [i \in 1..Len(CommaItems(t)) |-> ParseI64(CommaItems(t)[i]).v])
            ELSE IsValue(rv, "StrList", CommaItems(t))
       ELSE IF ParseI64(t).ok THEN IsValue(rv, "Int", ParseI64(t).v)
            ELSE IsValue(rv, "Str", t)
    /\ (~Contains(t, ",") /\ RangeItem(t)) => rv.tag = "Str"
    /\ (Contains(t, ",") /\ \E i \in 1..Len(CommaItems(t)) : RangeItem(CommaItems(t)[i]))
       => rv.tag = "StrList"

\* C17 as claimed: parse_auto, the brackets stripped, gives for a text with a
\* comma the IntList of its trimmed non-empty items when each parses as an
\* integer and the StrList of all of them otherwise, for a text without comma
\* Int when it parses as an integer and Str otherwise; an item like "0-24"
\* never becomes an integer.
C17_ParseAutoClassifies ==
    (Finished /\ outcome.op = "parse_auto")
    => AutoTyped(Unbracketed(RawText), outcome.value,
                 IsValue(outcome.value, "IntList", <<>>))

\* C17, amended: as claimed for a text with at least one non-empty item; a
\* text with a comma whose items are all empty gives Str("").
C17_ParseAutoClassifiesItems ==
    (Finished /\ outcome.op = "parse_auto")
    => AutoTyped(Unbracketed(RawText), outcome.value,
                 IsValue(outcome.value, "Str", ""))

\* a bracketed list of an integer and a range: both kept as strings
C17_Witness ==
    /\ Finished /\ outcome.op = "parse_auto"
    /\ RawText = "[1,0-24]"
    /\ IsValue(outcome.value, "StrList", <<"1", "0-24">>)

\* the probe returned "exists"
ReturnedExists == outcome.ok /\ outcome.value

\* the probe returned "does not exist"
ReturnedAbsent == outcome.ok /\ ~outcome.value

\* what the probe sent, for the URL it was given
SentHeadOnly == outcome.log = <<HttpReq("HEAD", outcome.log[1].url, "")>>

SentHeadThenGet ==
    outcome.log = <<HttpReq("HEAD", outcome.log[1].url, ""),
                    HttpReq("GET", outcome.log[1].url, "bytes=0-0")>>

\* C18: the probe returns exists when HEAD answers 200; when HEAD answers 403,
\* 404, 405, 409, 429, 500, 501, 502 or 503 or fails in transport it sends
\* exactly one GET with Range bytes=0-0 and returns exists iff that GET answers
\* 200 or 206; on any other HEAD answer it returns nonexistent and sends no GET.
C18_ProbeByHeadThenGet ==
    (Finished /\ outcome.op = "probe_exists")
    => LET head == HeadStatus(outcome.log[1].url)
           get  == GetStatus(outcome.log[1].url, TRUE)
       IN  /\ head = 200 => ReturnedExists /\ SentHeadOnly
           /\ (head \in {403, 404, 405, 409, 429, 500, 501, 502, 503}
                  \/ head = TransportError)
              => SentHeadThenGet /\ (ReturnedExists <=> get \in {200, 206})
           /\ (head # 200 /\ head # TransportError
                  /\ head \notin {403, 404, 405, 409, 429, 500, 501, 502, 503})
              => ReturnedAbsent /\ SentHeadOnly

\* HEAD refused with 403, the ranged GET answered 206: the URL exists
C18_Witness ==
    /\ Finished /\ outcome.op = "probe_exists"
    /\ srv.head = 403 /\ srv.get = 206
    /\ ReturnedExists /\ SentHeadThenGet

\* the non-empty tokens of a value, as expand_numeric_syntax takes it apart
SlashTokens(s) == SelectSeq(Split(s, "/"), NonEmpty)

\* the value has the shape a/to/b or a/to/b/by/c, whatever a, b and c are
RangeShaped(s) ==
    \/ Len(SlashTokens(s)) = 3 /\ EqIgnoreCase(SlashTokens(s)[2], "to")
    \/ /\ Len(SlashTokens(s)) = 5
       /\ EqIgnoreCase(SlashTokens(s)[2], "to")
       /\ EqIgnoreCase(SlashTokens(s)[4], "by")

\* C19: expand_numeric_syntax returns [v] for a value without '/', expands a
\* range form, and fails with InvalidRequest on every other value that holds
\* a '/' ("1/2/3", "0/to", "0/by/3").
C19_OtherSlashShapesRejected ==
    (Finished /\ outcome.op = "expand_numeric_syntax")
    => /\ ~Contains(RawText, "/") => outcome.ok /\ outcome.value = <<RawText>>
       /\ (RangeShaped(RawText) /\ outcome.ok)
          => outcome.value[1] = IntToString(ParseI64(SlashTokens(RawText)[1]).v)
       /\ (Contains(RawText, "/") /\ ~RangeShaped(RawText))
          => ~outcome.ok /\ outcome.err = "InvalidRequest"

\* the integers a range text is written with
RangeFrom == ParseI64(SlashTokens(RawText)[1]).v
RangeTo == ParseI64(SlashTokens(RawText)[3]).v
RangeBy == ParseI64(SlashTokens(RawText)[5]).v

\* the raw text is a/to/b, or a/to/b/by/c, of integers
IsToText ==
    /\ Len(Split(RawText, "/")) = 3 /\ Split(RawText, "/")[2] = "to"
    /\ ParseI64(Split(RawText, "/")[1]).ok /\ ParseI64(Split(RawText, "/")[3]).ok

IsToByText ==
    /\ Len(Split(RawText, "/")) = 5
    /\ Split(RawText, "/")[2] = "to" /\ Split(RawText, "/")[4] = "by"
    /\ \A i \in {1, 3, 5} : ParseI64(Split(RawText, "/")[i]).ok

\* the list a, a + c, a + 2c, ... up to the largest value <= b
Progression(a, b, c) == [i \in 1..((b - a) \div c + 1) |-> IntToString(a + (i - 1) * c)]

\* C20: for integers a <= b and c > 0, "a/to/b/by/c" gives exactly a, a + c,
\* a + 2c, ... up to the largest value <= b, floor((b-a)/c) + 1 elements, each
\* in [a, b] and congruent to a mod c; "a/to/b" gives the b - a + 1 integers
\* a..b; both fail with InvalidRequest when a > b.
C20_RangeFormsExpand ==
    (Finished /\ outcome.op = "expand_numeric_syntax")
    => /\ (IsToByText /\ RangeFrom <= RangeTo /\ RangeBy > 0)
          => /\ outcome.ok
             /\ outcome.value = Progression(RangeFrom, RangeTo, RangeBy)
             /\ Len(outcome.value) = (RangeTo - RangeFrom) \div RangeBy + 1
             /\ \A i \in 1..Len(outcome.value) :
                  /\ ParseI64(outcome.value[i]).v \in RangeFrom..RangeTo
                  /\ (ParseI64(outcome.value[i]).v - RangeFrom) % RangeBy = 0
       /\ (IsToText /\ RangeFrom <= RangeTo)
          => /\ outcome.ok
             /\ outcome.value = Progression(RangeFrom, RangeTo, 1)
             /\ Len(outcome.value) = RangeTo - RangeFrom + 1
       /\ ((IsToText \/ (IsToByText /\ RangeBy > 0)) /\ RangeFrom > RangeTo)
          => ~outcome.ok /\ outcome.err = "InvalidRequest"

\* what canonical_time_to_hour made of the text: success on the accepted
\* texts and only on them, an hour of a cycle, InvalidRequest otherwise
TimeAccepted(accepted) ==
    (Finished /\ outcome.op = "canonical_time_to_hour")
    => /\ outcome.ok <=> accepted
       /\ outcome.ok => outcome.value \in {0, 6, 12, 18}
       /\ ~outcome.ok => outcome.err = "InvalidRequest"

\* C21 as claimed: canonical_time_to_hour succeeds, with an hour in 0, 6, 12,
\* 18, exactly on "0", "6", "12", "18", "600", "1200", "1800", "00", "06" and
\* fails with InvalidRequest on every other string ("0000", "012", "24").
C21_TimeTextsAccepted ==
    TimeAccepted(request["time"].val
                    \in {"0", "6", "12", "18", "600", "1200", "1800", "00", "06"})

\* C21, amended: canonical_time_to_hour succeeds exactly on the strings that,
\* trimmed, are an integer (optional sign, any leading zeros) of value 0, 6,
\* 12, 18, 600, 1200 or 1800, and fails with InvalidRequest on every other.
C21_TimeValuesAccepted ==
    TimeAccepted(/\ ParseI64(Trim(request["time"].val)).ok
                 /\ ParseI64(Trim(request["time"].val)).v
                        \in {0, 6, 12, 18, 600, 1200, 1800})

\* the text "0600" taken as the hour 6
C21_Witness ==
    /\ Finished /\ outcome.op = "canonical_time_to_hour"
    /\ request["time"].val = "0600"
    /\ outcome.ok /\ outcome.value = 6

\* C22: where expand_time_value succeeds on a text holding "/to/", every
\* element returned is one of 0, 6, 12, 18 ("0/to/18" gives [0, 6, 12, 18]);
\* for a text without "/to/" the numeric expansion is returned as it is.
C22_TimeRangeFiltered ==
    (Finished /\ outcome.op = "expand_time_value")
    => /\ (Contains(request["time"].val, "/to/") /\ outcome.ok)
          => \A i \in 1..Len(outcome.value) : outcome.value[i] \in {"0", "6", "12", "18"}
       /\ request["time"].val = "0/to/18"
          => outcome.ok /\ outcome.value = <<"0", "6", "12", "18">>
       /\ ~Contains(request["time"].val, "/to/")
          => /\ outcome.ok = expand_numeric_syntax(request["time"].val).ok
             /\ outcome.ok => outcome.value = expand_numeric_syntax(request["time"].val).v

\* user_to_url_value was applied to the request's type
TypeMapped ==
    Finished /\ outcome.op = "user_to_url_value" /\ outcome.value.key = "type"

\* C23: for a model other than aifs-ens the types cf, pf, em, es and fcmean
\* are each mapped to another type (cf, pf to ef; em, es to ep; fcmean to fc)
\* and every other type is left as it is; for aifs-ens cf and pf are returned
\* unchanged.
C23_TypeAliases ==
    TypeMapped
    => /\ request["model"].val # "aifs-ens"
          => /\ request["type"].val \in {"cf", "pf"} => outcome.value.v = "ef"
             /\ request["type"].val \in {"em", "es"} => outcome.value.v = "ep"
             /\ request["type"].val = "fcmean" => outcome.value.v = "fc"
             /\ request["type"].val \in {"cf", "pf", "em", "es", "fcmean"}
                   <=> outcome.value.v # request["type"].val
       /\ (request["model"].val = "aifs-ens" /\ request["type"].val \in {"cf", "pf"})
          => outcome.value.v = request["type"].val

\* pf under aifs-ens, kept as pf
C23_Witness ==
    /\ TypeMapped
    /\ request["model"].val = "aifs-ens" /\ request["type"].val = "pf"
    /\ outcome.value.v = "pf"

\* C24: for model aifs-ens user_to_url_value on the key type is the identity:
\* it substitutes nothing for em, es, fcmean or any other type.
C24_AifsEnsTypeIdentity ==
    (TypeMapped /\ request["model"].val = "aifs-ens")
    => outcome.value.v = request["type"].val

\* patch_stream was applied
StreamPatched == Finished /\ outcome.op = "patch_stream"

\* inference is on for the request
Inferring == opts.infer_stream_keyword /\ request["model"].val # "aifs-single"

\* the first patch: oper to scda and wave to scwv at the hours 06 and 18
PatchedByHour ==
    IF request["time"].val \in {"06", "18"} /\ request["stream"].val = "oper" THEN "scda"
    ELSE IF request["time"].val \in {"06", "18"} /\ request["stream"].val = "wave" THEN "scwv"
    ELSE request["stream"].val

\* C25: patch_stream returns the stream unchanged when the flag is false or
\* the model is aifs-single; otherwise it maps oper to scda and wave to scwv
\* at hours 06 and 18 and then, for type ef or ep, oper and scda to enfo and
\* wave and scwv to waef.  So oper at 06 or 18 gives scda for type fc and enfo
\* for type ef, and with inference on the result for ef or ep is never oper,
\* scda, wave or scwv.
C25_StreamInferred ==
    StreamPatched
    => /\ ~Inferring => outcome.value = request["stream"].val
       /\ (Inferring /\ request["type"].val \notin {"ef", "ep"})
          => outcome.value = PatchedByHour
       /\ (Inferring /\ request["type"].val \in {"ef", "ep"})
          => /\ PatchedByHour \in {"oper", "scda"} => outcome.value = "enfo"
             /\ PatchedByHour \in {"wave", "scwv"} => outcome.value = "waef"
             /\ PatchedByHour \notin {"oper", "scda", "wave", "scwv"}
                   => outcome.value = PatchedByHour
             /\ outcome.value \notin {"oper", "scda", "wave", "scwv"}
       /\ (Inferring /\ request["stream"].val = "oper"
              /\ request["time"].val \in {"06", "18"})
          => /\ request["type"].val = "fc" => outcome.value = "scda"
             /\ request["type"].val = "ef" => outcome.value = "enfo"

\* oper at 06 with type ef: enfo
C25_Witness ==
    /\ StreamPatched /\ Inferring
    /\ request["stream"].val = "oper" /\ request["time"].val = "06"
    /\ request["type"].val = "ef"
    /\ outcome.value = "enfo"

\* the text expand_date_value was applied to, and its slash tokens
DateText == request["date"].val

DateExpanded == pc = "done" /\ outcome.op = "expand_date_value"

\* the text is A/to/B or A/to/B/by/N with valid dates A <= B and N > 0
IsDateRange(tokens, a, b, n) ==
    /\ Len(tokens) \in {3, 5}
    /\ tokens[2] = "to"
    /\ Len(tokens) = 5 => tokens[4] = "by" /\ n.ok /\ n.v > 0
    /\ a.ok /\ b.ok /\ DtLeq(a.v, b.v)

\* the list holds A, then every N-th day, up to the last one not after B
DateProgression(list, a, b, n) ==
    LET Day(i) == DayNumber(parse_date_like(list[i], now).v)
    IN  /\ Len(list) = (DayNumber(b) - DayNumber(a)) \div n + 1
        /\ list[1] = yyyymmdd(a)
        /\ \A i \in DOMAIN list :
              /\ Len(list[i]) = 8
              /\ Day(i) = DayNumber(a) + (i - 1) * n
              /\ Day(i) <= DayNumber(b)
        /\ \A i, j \in DOMAIN list : i < j => Day(i) < Day(j) /\ list[i] # list[j]
        /\ unique_preserve(list) = list

DateRangeExpanded(tokens, a, b, n) ==
    IsDateRange(tokens, a, b, n)
    => /\ outcome.ok
       /\ DateProgression(outcome.value, a.v, b.v, IF Len(tokens) = 5 THEN n.v ELSE 1)

\* C26: for valid dates A <= B, expand_date_value of "A/to/B" returns the
\* YYYYMMDD strings of A, A+1 day, ... up to B, and of "A/to/B/by/N" with
\* N > 0 those of A, A+N days, ... up to the last one not after B: the list
\* is strictly increasing, holds no string twice, and is left unchanged by
\* deduplication.
C26_DateRangeExpanded ==
    DateExpanded
    => DateRangeExpanded(Split(DateText, "/"),
                         parse_date_like(Split(DateText, "/")[1], now),
                         parse_date_like(Split(DateText, "/")[3], now),
                         ParseI64(Split(DateText, "/")[5]))

\* a plan entry url|ranges is decoded to the url and the ranges it was
\* written from, each of them with start <= end
DecodedAsEncoded(entry, split) ==
    /\ split.ok
    /\ \A i \in DOMAIN split.v.ranges : split.v.ranges[i][1] <= split.v.ranges[i][2]
    /\ entry = split.v.url \o "|" \o EncodeRanges(split.v.ranges)

\* C27: every range list the index planner encodes is accepted back by
\* split_url_ranges with the same url and the same (start, end) pairs, each
\* with start <= end, and computing offset + length - 1 never underflows,
\* for matching entries of any offset and any length, length 0 included.
C27_EncodedRangesDecode ==
    (Finished /\ outcome.op = "retrieve")
    => /\ outcome.err # "Overflow"
       /\ outcome.resolved
          => \A e \in 1..Len(outcome.plan.urls) :
                Contains(outcome.plan.urls[e], "|")
                => DecodedAsEncoded(outcome.plan.urls[e],
                                    split_url_ranges(outcome.plan.urls[e]))

\* the bytes a list of inclusive ranges covers
BytesOf(rs) == UNION {rs[i][1]..rs[i][2] : i \in DOMAIN rs}

\* the sidecar lines of a plan entry that match the request, as (offset, length)
MatchingEntries(body, params) ==
    {<<body[i]["_offset"].v, body[i]["_length"].v>> :
        i \in {i \in 1..Len(body) : InSeq(body[i]["param"].v, params)}}

\* the bytes of the matching entries: the union of [offset, offset+length-1]
RequestedBytes(entries) == UNION {m[1]..(m[1] + m[2] - 1) : m \in entries}

\* the merged ranges cover the requested bytes, no other byte, none twice
CoversExactly(rs, entries) ==
    /\ (\A m \in entries : m[2] >= 1) => BytesOf(rs) = RequestedBytes(entries)
    /\ \A i, j \in DOMAIN rs : i < j => (rs[i][1]..rs[i][2]) \cap (rs[j][1]..rs[j][2]) = {}

\* C28: for matching index entries of length >= 1 the bytes covered by the
\* merged ranges of a plan entry are exactly the union of the entries'
\* intervals [offset, offset+length-1]: no requested byte is dropped, no byte
\* outside a matching entry is added, and no byte lies in two ranges.
C28_MergedRangesCoverEntries ==
    (Finished /\ outcome.op = "retrieve" /\ outcome.resolved)
    => \A e \in 1..Len(outcome.plan.urls) :
          CoversExactly(RangesOf(outcome.plan.urls[e]),
                        MatchingEntries(IndexBody(split_url_ranges(outcome.plan.urls[e]).v.url),
                                        outcome.plan.for_index["param"]))

\* a long entry, then a shorter one inside it, then one that starts right
\* after the long one: a single range over the bytes of the three
C28_Witness ==
    /\ Finished /\ outcome.op = "retrieve" /\ outcome.resolved
    /\ Len(srv.index) = 3
    /\ \A i \in 1..3 : InSeq(srv.index[i].obj["param"].v, outcome.plan.for_index["param"])
    /\ [i \in 1..3 |-> <<srv.index[i].obj["_offset"].v, srv.index[i].obj["_length"].v>>]
          = <<<<0, 1000>>, <<0, 500>>, <<1000, 500>>>>
    /\ RangesOf(outcome.plan.urls[1]) = <<<<0, 1499>>>>

\* the prober asked for the URL and found it: a HEAD for it is on record,
\* and the store answers the probe with "exists"
ProbedAndFound(url, log) ==
    /\ InSeq(HttpReq("HEAD", url, ""), log)
    /\ probe_exists(url).ok
    /\ probe_exists(url).v

\* C29: when the request has no date and resolution succeeds, every data URL
\* of the plan (before index expansion) was probed by the latest-cycle prober
\* and found to exist, also when the request's time holds several values
\* and the prober probes with one hour only.
C29_PlanUrlsProbed ==
    (Finished /\ outcome.op = "download" /\ outcome.resolved
        /\ "date" \notin DOMAIN request)
    => \A e \in 1..Len(outcome.plan.urls) :
          ProbedAndFound(apply_sas_to_url(outcome.plan.urls[e]), outcome.log)

\* the URL-space types of the request: the alias of each slash-split type
\* value, each kept once
AliasedTypes ==
    unique_preserve([i \in 1..Len(Named("type")) |->
                        user_to_url_value(opts.model, "type", Named("type")[i], <<>>)])

\* C30: the final for_urls["type"] of a resolved plan is the deduplicated
\* alias mapping of the individual slash-split type values, the list the
\* step bucketing works with, and none of its values holds a '/', also for
\* a type given as one slash-separated string such as "em/es".
C30_TypeListSlashSplit ==
    (Finished /\ outcome.resolved /\ "type" \in DOMAIN request)
    => /\ outcome.plan.for_urls["type"] = AliasedTypes
       /\ \A i \in 1..Len(outcome.plan.for_urls["type"]) :
             ~Contains(outcome.plan.for_urls["type"][i], "/")

====
